---- MODULE Spec2Model ----
(***************************************************************************)
(* A model of the message-archive search application:                      *)
(*   - the server-side record store (src/lib/parseHtml.ts, second half:    *)
(*     saveParsedFile / loadParsedFile / evictIfNeeded, an LRU cache of    *)
(*     MAX_CACHED_FILES datasets in front of the data directory);          *)
(*   - the metadata aggregator (computeMeta);                              *)
(*   - the query engine (src/lib/searchMessages.ts);                       *)
(*   - the browser upload with "replace if name matches"                   *)
(*     (src/app/components/HtmlSearchApp.tsx over the IndexedDB store).    *)
(*                                                                         *)
(* Strings are sequences of character codes, so that trimming, lowercasing,*)
(* splitting, substring search and the default string sort are computed    *)
(* and not assumed.  An optional value (T | null) is <<>> for null and     *)
(* <<v>> for a present v.                                                  *)
(***************************************************************************)
EXTENDS Integers, Sequences, FiniteSets, Bags, TLC

VARIABLES
    \* ---- server-side record store ----
    disk,        \* data/<fileId>/{meta.json, messages.json}: the durable store
    cache,       \* the module-level Map<string, CacheEntry>, in insertion order
    now,         \* the value Date.now() returns
    ops,         \* the saveParsedFile / loadParsedFile calls suspended at an await
    ret,         \* what a call has just handed to its caller
    lastPut,     \* history: per fileId, what the last completed put stored
    scen,        \* history: how far the run has followed EvictionScript
    \* ---- query engine and metadata aggregator, called on their own ----
    list,        \* the message list handed to the function
    query,       \* the predicates of the query (SearchParams without the page)
    out,         \* what the function returned
    \* ---- browser application ----
    idb,         \* the IndexedDB object store "files", keyed by fileId
    upl,         \* the upload() callback in progress: its locals
    active,      \* the dataset the page shows (fileId, meta, messages)
    loading,     \* the loadActiveFile calls suspended at their await, in call order
    requested,   \* history: the fileId of the last loadActiveFile call
    \* ---- extraction ----
    doc          \* the parsed document handed to the extraction

storeVars == <<disk, cache, now, ops, ret, lastPut, scen>>
searchVars == <<list, query, out>>
browserVars == <<idb, upl, active, loading, requested>>
extractVars == <<doc>>
vars == <<storeVars, searchVars, browserVars, extractVars>>

-----------------------------------------------------------------------------
(* Bounds of the model *)

MaxClock == 1          \* Date.now() takes the values 0..MaxClock
MaxSaves == 1          \* saveParsedFile calls in flight at once (Spec)
MaxLoads == 1          \* loadParsedFile calls in flight at once (Spec)

-----------------------------------------------------------------------------
(* Optional values *)

Null == <<>>
Some(v) == <<v>>
IsSome(o) == o # <<>>
Get(o) == o[1]

-----------------------------------------------------------------------------
(* Strings as sequences of character codes *)

RECURSIVE StrLess(_, _)
\* a < b in the order of Array.prototype.sort() without a comparator
\* (code unit by code unit, a proper prefix first)
StrLess(a, b) ==
    IF b = <<>> THEN FALSE
    ELSE IF a = <<>> THEN TRUE
    ELSE IF a[1] # b[1] THEN a[1] < b[1]
    ELSE StrLess(Tail(a), Tail(b))

RECURSIVE SortStrings(_)
\* the elements of a set of strings in ascending order
SortStrings(S) ==
    IF S = {} THEN <<>>
    ELSE LET least == CHOOSE s \in S : \A t \in S \ {s} : StrLess(s, t)
         IN  <<least>> \o SortStrings(S \ {least})

Range(seq) == { seq[i] : i \in 1..Len(seq) }

\* /\s/ on the characters the model uses: tab, line feed, carriage return, space,
\* no-break space
IsSpace(c) == c \in {9, 10, 13, 32, 160}

\* \w of a regular expression: [A-Za-z0-9_]
IsWordChar(c) == (c >= 48 /\ c <= 57) \/ (c >= 65 /\ c <= 90) \/ c = 95 \/ (c >= 97 /\ c <= 122)

\* the lowercase of an ASCII letter
LowerChar(c) == IF c >= 65 /\ c <= 90 THEN c + 32 ELSE c

DottedI == 304                         \* the character U+0130, capital I with dot above

RECURSIVE LowerFull(_)
\* the lowercase of a string, character by character; the lowercase of U+0130
\* is the two characters U+0069 U+0307
LowerFull(str) ==
    IF str = <<>> THEN <<>>
    ELSE (IF str[1] = DottedI THEN <<105, 775>> ELSE <<LowerChar(str[1])>>) \o LowerFull(Tail(str))

\* String.prototype.toLowerCase on the ASCII letters and U+0130; a string
\* without U+0130 keeps its length
toLowerCase(str) ==
    IF \A i \in 1..Len(str) : str[i] # DottedI
    THEN [ i \in 1..Len(str) |-> LowerChar(str[i]) ]
    ELSE LowerFull(str)

RECURSIVE TrimStart(_)
TrimStart(str) ==
    IF str # <<>> /\ IsSpace(str[1]) THEN TrimStart(Tail(str)) ELSE str

RECURSIVE TrimEnd(_)
TrimEnd(str) ==
    IF str # <<>> /\ IsSpace(str[Len(str)]) THEN TrimEnd(SubSeq(str, 1, Len(str) - 1)) ELSE str

\* String.prototype.trim
trim(str) == TrimEnd(TrimStart(str))

RECURSIVE SplitWhitespace(_, _)
\* str.split(/\s+/): the pieces between maximal runs of whitespace; cur is the
\* piece being read.  A run at either end of str yields an empty piece there.
SplitWhitespace(str, cur) ==
    IF str = <<>> THEN <<cur>>
    ELSE IF IsSpace(str[1])
         THEN <<cur>> \o SplitWhitespace(TrimStart(str), <<>>)
         ELSE SplitWhitespace(Tail(str), Append(cur, str[1]))

\* the least 0-based position at which needle occurs in hay, or -1
indexOf(hay, needle) ==
    LET hits == { p \in 0..(Len(hay) - Len(needle)) :
                    SubSeq(hay, p + 1, p + Len(needle)) = needle }
    IN  IF hits = {} THEN 0 - 1 ELSE CHOOSE p \in hits : \A r \in hits : p <= r

\* String.prototype.includes
includes(hay, needle) == indexOf(hay, needle) >= 0

\* a relative index of slice(): negative counts from the end, clamped to 0..len
SliceIndex(i, len) ==
    IF i < 0 THEN (IF len + i < 0 THEN 0 ELSE len + i)
    ELSE IF i > len THEN len ELSE i

\* String.prototype.slice / Array.prototype.slice (0-based, end exclusive)
slice(seq, start, end) ==
    SubSeq(seq, SliceIndex(start, Len(seq)) + 1, SliceIndex(end, Len(seq)))

Ellipsis == <<8230>>                   \* the character U+2026

SetMin(S) == CHOOSE m \in S : \A n \in S : m <= n

SetMax(S) == CHOOSE m \in S : \A n \in S : m >= n

-----------------------------------------------------------------------------
(* Messages and datasets used as inputs *)

SenderAva  == <<65, 118, 97>>          \* "Ava"
SenderNoah == <<78, 111, 97, 104>>     \* "Noah"
SenderLower == <<97, 118, 97>>         \* "ava"
NameA == <<97>>                        \* originalName "a"
NameB == <<98>>                        \* originalName "b"

Msg(id, sender, text, ts) ==
    [id |-> id, sender |-> sender, text |-> text, textNorm |-> toLowerCase(text),
     timestampRaw |-> <<>>, timestampMs |-> ts]

-----------------------------------------------------------------------------
(* Metadata aggregator *)

\* an aggregator that hands every timestampMs to Math.min, null counting as 0
computeMeta_NullAsZero(fileId, originalName, messages, clock) ==
    LET timestamps == { Get(messages[i].timestampMs) :
                          i \in { j \in 1..Len(messages) : IsSome(messages[j].timestampMs) } }
        withNulls == { IF IsSome(messages[i].timestampMs) THEN Get(messages[i].timestampMs) ELSE 0 :
                          i \in 1..Len(messages) }
    IN  [fileId |-> fileId,
         originalName |-> originalName,
         messageCount |-> Len(messages),
         senders |-> SortStrings({ messages[i].sender : i \in 1..Len(messages) }),
         minTimestampMs |-> IF timestamps # {} THEN Some(SetMin(withNulls)) ELSE Null,
         maxTimestampMs |-> IF timestamps # {} THEN Some(SetMax(timestamps)) ELSE Null,
         createdAtMs |-> clock]

computeMeta(fileId, originalName, messages, clock) ==
    LET timestamps == { Get(messages[i].timestampMs) :
                          i \in { j \in 1..Len(messages) : IsSome(messages[j].timestampMs) } }
    IN  [fileId |-> fileId,
         originalName |-> originalName,
         messageCount |-> Len(messages),
         senders |-> SortStrings({ messages[i].sender : i \in 1..Len(messages) }),
         minTimestampMs |-> IF timestamps # {} THEN Some(SetMin(timestamps)) ELSE Null,
         maxTimestampMs |-> IF timestamps # {} THEN Some(SetMax(timestamps)) ELSE Null,
         createdAtMs |-> clock]

-----------------------------------------------------------------------------
(* Query engine: src/lib/searchMessages.ts *)

\* the terms of a query: trimmed, lowercased, split on whitespace, empties dropped
parseTerms(value) ==
    SelectSeq([ i \in 1..Len(SplitWhitespace(toLowerCase(trim(value)), <<>>)) |->
                  trim(SplitWhitespace(toLowerCase(trim(value)), <<>>)[i]) ],
              LAMBDA t : t # <<>>)

\* \b at the 0-based position i of hay: exactly one of the characters on the
\* two sides of i is a word character (the ends of hay count as non-word)
WordBoundary(hay, i) ==
    LET before == i >= 1 /\ i <= Len(hay) /\ IsWordChar(hay[i])
        after  == i + 1 >= 1 /\ i + 1 <= Len(hay) /\ IsWordChar(hay[i + 1])
    IN  before # after

\* new RegExp(`\\b${escapeRegExp(term)}\\b`, "i").test(hay)
RegExpWordTest(term, hay) ==
    \E p \in 0..(Len(hay) - Len(term)) :
        /\ toLowerCase(SubSeq(hay, p + 1, p + Len(term))) = toLowerCase(term)
        /\ WordBoundary(hay, p)
        /\ WordBoundary(hay, p + Len(term))

ModeSubstring == "substring"
ModeWord == "word"

\* a whole-word match satisfied by any one of the terms
matchesQuery_AnyTerm(textNorm, q, matchMode) ==
    LET qTrim == trim(q)
        qNorm == toLowerCase(qTrim)
        terms == parseTerms(qTrim)
    IN  IF qTrim = <<>> THEN TRUE
        ELSE IF matchMode = ModeSubstring THEN includes(textNorm, qNorm)
        ELSE IF terms = <<>> THEN TRUE
        ELSE \E i \in 1..Len(terms) : RegExpWordTest(terms[i], textNorm)

matchesQuery(textNorm, q, matchMode) ==
    LET qTrim == trim(q)
        qNorm == toLowerCase(qTrim)
        terms == parseTerms(qTrim)
    IN  IF qTrim = <<>> THEN TRUE
        ELSE IF matchMode = ModeSubstring THEN includes(textNorm, qNorm)
        ELSE IF terms = <<>> THEN TRUE
        ELSE \A i \in 1..Len(terms) : RegExpWordTest(terms[i], textNorm)

\* an exclusion that tests the first term only
matchesExclude_FirstTerm(textNorm, exclude) ==
    LET exTrim == trim(exclude)
        terms == parseTerms(exTrim)
    IN  IF exTrim = <<>> THEN FALSE
        ELSE IF terms = <<>> THEN FALSE
        ELSE includes(textNorm, terms[1])

matchesExclude(textNorm, exclude) ==
    LET exTrim == trim(exclude)
        terms == parseTerms(exTrim)
    IN  IF exTrim = <<>> THEN FALSE
        ELSE IF terms = <<>> THEN FALSE
        ELSE \E i \in 1..Len(terms) : includes(textNorm, terms[i])

SnippetContext == 48

makeSnippet(text, textNorm, qNorm) ==
    LET context == SnippetContext
        pos == indexOf(textNorm, qNorm)
        fallback == slice(text, 0, IF Len(text) < context * 2 THEN Len(text) ELSE context * 2)
        start == IF pos - context > 0 THEN pos - context ELSE 0
        end == IF Len(text) < pos + Len(qNorm) + context
               THEN Len(text) ELSE pos + Len(qNorm) + context
        prefix == IF start > 0 THEN Ellipsis ELSE <<>>
        suffix == IF end < Len(text) THEN Ellipsis ELSE <<>>
    IN  IF pos < 0
        THEN (IF Len(text) > Len(fallback) THEN fallback \o Ellipsis ELSE fallback)
        ELSE prefix \o slice(text, start, end) \o suffix

\* params.matchMode ?? "substring"
MatchModeOf(params) ==
    IF IsSome(params.matchMode) THEN Get(params.matchMode) ELSE ModeSubstring

\* a loop without the test of toMs
Keeps_NoUpperBound(message, params) ==
    /\ ~ (IsSome(params.sender) /\ Get(params.sender) # <<>>
          /\ message.sender # Get(params.sender))
    /\ ~ (IsSome(params.exclude) /\ matchesExclude(message.textNorm, Get(params.exclude)))
    /\ ~ (IsSome(params.fromMs)
          /\ (~ IsSome(message.timestampMs) \/ Get(message.timestampMs) < Get(params.fromMs)))
    /\ matchesQuery(message.textNorm, params.q, MatchModeOf(params))

\* a loop whose time tests let a message without a timestamp through
Keeps_UndatedPass(message, params) ==
    /\ ~ (IsSome(params.sender) /\ Get(params.sender) # <<>>
          /\ message.sender # Get(params.sender))
    /\ ~ (IsSome(params.exclude) /\ matchesExclude(message.textNorm, Get(params.exclude)))
    /\ ~ (IsSome(params.fromMs)
          /\ IsSome(message.timestampMs) /\ Get(message.timestampMs) < Get(params.fromMs))
    /\ ~ (IsSome(params.toMs)
          /\ IsSome(message.timestampMs) /\ Get(message.timestampMs) > Get(params.toMs))
    /\ matchesQuery(message.textNorm, params.q, MatchModeOf(params))

\* the body of the filtering loop: TRUE when no `continue` is taken
Keeps(message, params) ==
    /\ ~ (IsSome(params.sender) /\ Get(params.sender) # <<>>
          /\ message.sender # Get(params.sender))
    /\ ~ (IsSome(params.exclude) /\ matchesExclude(message.textNorm, Get(params.exclude)))
    /\ ~ (IsSome(params.fromMs)
          /\ (~ IsSome(message.timestampMs) \/ Get(message.timestampMs) < Get(params.fromMs)))
    /\ ~ (IsSome(params.toMs)
          /\ (~ IsSome(message.timestampMs) \/ Get(message.timestampMs) > Get(params.toMs)))
    /\ matchesQuery(message.textNorm, params.q, MatchModeOf(params))

\* the sort key of the comparator: the timestamp, or -1 when it is unknown
SortValue(m) == IF IsSome(m.timestampMs) THEN Get(m.timestampMs) ELSE 0 - 1

\* the comparator (a, b) => bv - av
Compare(a, b) == SortValue(b) - SortValue(a)

RECURSIVE InsertSorted(_, _)
\* m put into the sorted list after every element that does not sort after it
InsertSorted(sorted, m) ==
    IF sorted = <<>> THEN <<m>>
    ELSE IF Compare(sorted[Len(sorted)], m) <= 0 THEN Append(sorted, m)
    ELSE Append(InsertSorted(SubSeq(sorted, 1, Len(sorted) - 1), m), sorted[Len(sorted)])

RECURSIVE StableSort(_)
\* Array.prototype.sort with the comparator: a stable sort
StableSort(arr) ==
    IF arr = <<>> THEN <<>>
    ELSE InsertSorted(StableSort(SubSeq(arr, 1, Len(arr) - 1)), arr[Len(arr)])

\* `filtered` after the loop and the sort
Filtered(messages, params) ==
    StableSort(SelectSeq(messages, LAMBDA m : Keeps(m, params)))

\* the hit built for one message of the page
Hit(m, params) ==
    LET qNorm == toLowerCase(trim(params.q))
        terms == parseTerms(params.q)
        firstTerm == IF MatchModeOf(params) = ModeWord
                     THEN (IF terms # <<>> THEN terms[1] ELSE <<>>)
                     ELSE qNorm
    IN  [id |-> m.id, sender |-> m.sender, timestampRaw |-> m.timestampRaw,
         timestampMs |-> m.timestampMs, text |-> m.text,
         snippet |-> IF firstTerm # <<>>
                     THEN makeSnippet(m.text, m.textNorm, firstTerm)
                     ELSE makeSnippet(m.text, m.textNorm, <<>>)]

\* a page cut as slice(offset, limit)
searchMessages_EndIsLimit(messages, params) ==
    LET filtered == Filtered(messages, params)
        page == slice(filtered, params.offset, params.limit)
    IN  [total |-> Len(filtered),
         results |-> [ i \in 1..Len(page) |-> Hit(page[i], params) ]]

\* a page that runs one hit into the next page
searchMessages_OneMore(messages, params) ==
    LET filtered == Filtered(messages, params)
        page == slice(filtered, params.offset, params.offset + params.limit + 1)
    IN  [total |-> Len(filtered),
         results |-> [ i \in 1..Len(page) |-> Hit(page[i], params) ]]

searchMessages(messages, params) ==
    LET filtered == Filtered(messages, params)
        page == slice(filtered, params.offset, params.offset + params.limit)
    IN  [total |-> Len(filtered),
         results |-> [ i \in 1..Len(page) |-> Hit(page[i], params) ]]

-----------------------------------------------------------------------------
(* Server-side record store *)

MAX_CACHED_FILES == 3

\* the fileIds in use: one more than the cache holds
FileIds == 1..(MAX_CACHED_FILES + 1)

\* what is uploaded under fileId f the first way and the second way
FirstUpload(f) ==
    [originalName |-> IF f % 2 = 1 THEN NameA ELSE NameB,
     messages |-> IF f % 2 = 1
                  THEN << Msg(1, SenderAva, <<108, 97>>, Some(1)) >>
                  ELSE << Msg(1, SenderNoah, <<108, 97>>, Null),
                          Msg(2, SenderAva, <<107, 101>>, Some(2)) >>]
SecondUpload(f) == FirstUpload(f + 1)

\* JSON.stringify / JSON.parse of a value made of strings, finite numbers,
\* null, arrays and objects: the text is kept as a tagged value
JsonStringify(v) == [json |-> v]
JsonParse(t) == t.json

CacheKeys(c) == { c[i].key : i \in 1..Len(c) }
CacheIndex(c, k) == CHOOSE i \in 1..Len(c) : c[i].key = k
CacheGet(c, k) == c[CacheIndex(c, k)]

\* a map that iterates a new key before the keys it had
CacheSet_NewKeyFirst(c, k, entry) ==
    IF k \in CacheKeys(c)
    THEN [c EXCEPT ![CacheIndex(c, k)] = entry]
    ELSE <<entry>> \o c

\* Map.prototype.set: an existing key keeps its place, a new key goes last
CacheSet(c, k, entry) ==
    IF k \in CacheKeys(c)
    THEN [c EXCEPT ![CacheIndex(c, k)] = entry]
    ELSE Append(c, entry)

RemoveAt(s, i) == SubSeq(s, 1, i - 1) \o SubSeq(s, i + 1, Len(s))

\* a loop comparing with <= : the last of the entries with the least lastAccessMs
OldestIndex_LastFound(c) ==
    CHOOSE i \in 1..Len(c) :
        /\ \A j \in 1..Len(c) : c[i].lastAccessMs <= c[j].lastAccessMs
        /\ \A j \in (i + 1)..Len(c) : c[j].lastAccessMs > c[i].lastAccessMs

\* the entry the loop of evictIfNeeded ends with: the first one, in iteration
\* order, whose lastAccessMs is below that of every entry before it and not
\* above that of any entry after it
OldestIndex(c) ==
    CHOOSE i \in 1..Len(c) :
        /\ \A j \in 1..Len(c) : c[i].lastAccessMs <= c[j].lastAccessMs
        /\ \A j \in 1..(i - 1) : c[j].lastAccessMs > c[i].lastAccessMs

\* eviction in insertion order, whatever the accesses since
evictIfNeeded_FirstInserted(c) ==
    IF Len(c) <= MAX_CACHED_FILES THEN c
    ELSE RemoveAt(c, 1)

\* eviction that starts one entry too late
evictIfNeeded_OneTooLate(c) ==
    IF Len(c) <= MAX_CACHED_FILES + 1 THEN c
    ELSE RemoveAt(c, OldestIndex(c))

evictIfNeeded(c) ==
    IF Len(c) <= MAX_CACHED_FILES THEN c
    ELSE RemoveAt(c, OldestIndex(c))

CacheEntry(k, meta, messages, clock) ==
    [key |-> k, meta |-> meta, messages |-> messages, lastAccessMs |-> clock]

NoRet == [op |-> "none"]

InFlight == BagToSet(ops)
SavesInFlight == { o \in InFlight : o.kind = "save" }
NumSaves == BagCardinality(ops) - BagCardinality([o \in { p \in InFlight : p.kind = "load" } |-> ops[o]])
NumLoads == BagCardinality(ops) - NumSaves
Replace(o, n) == (ops (-) SetToBag({o})) (+) SetToBag({n})

\* the run of the eviction scenario: put 1..N, get 2..N, put N+1
EvictionScript ==
    [i \in 1..(2 * MAX_CACHED_FILES) |->
        IF i <= MAX_CACHED_FILES THEN <<"put", i>>
        ELSE IF i < 2 * MAX_CACHED_FILES THEN <<"get", i - MAX_CACHED_FILES + 1>>
        ELSE <<"put", MAX_CACHED_FILES + 1>>]
ScriptDone == 2 * MAX_CACHED_FILES
\* a call is the script's next one, made while nothing else is in flight
Follows(kind, f) ==
    /\ scen >= 0 /\ scen < ScriptDone
    /\ EvictionScript[scen + 1] = <<kind, f>>
    /\ ops = EmptyBag
Dead == 0 - 1

\* saveParsedFile, up to its first await
SaveCall(f, u) ==
    /\ ret = NoRet
    /\ \A o \in SavesInFlight : o.fileId # f
    /\ ops' = BagOfAll(LAMBDA o : IF o.kind = "load" /\ o.fileId = f
                                  THEN [o EXCEPT !.overlap = TRUE] ELSE o, ops)
              (+) SetToBag({[kind |-> "save", pc |-> "ensureDir", fileId |-> f,
                             originalName |-> u.originalName, messages |-> u.messages,
                             meta |-> Null, metaRaw |-> Null, messagesRaw |-> Null,
                             overlap |-> FALSE, follows |-> Follows("put", f)]})
    /\ scen' = IF Follows("put", f) THEN scen ELSE Dead
    /\ UNCHANGED <<disk, cache, now, ret, lastPut, searchVars, browserVars, extractVars>>

\* both ensureDir awaits are over: the meta is built and the first write issued
SaveEnsureDir(o) ==
    /\ ret = NoRet
    /\ o.kind = "save" /\ o.pc = "ensureDir"
    /\ ops' = Replace(o, [o EXCEPT !.pc = "writeMeta",
                                   !.meta = Some(computeMeta(o.fileId, o.originalName,
                                                             o.messages, now))])
    /\ UNCHANGED <<disk, cache, now, ret, lastPut, scen, searchVars, browserVars, extractVars>>

\* fs.writeFile(metaPath) is done; the write of messages.json is issued
SaveWriteMeta(o) ==
    /\ ret = NoRet
    /\ o.kind = "save" /\ o.pc = "writeMeta"
    /\ disk' = [disk EXCEPT ![o.fileId].meta = Some(JsonStringify(Get(o.meta)))]
    /\ ops' = Replace(o, [o EXCEPT !.pc = "writeMessages"])
    /\ UNCHANGED <<cache, now, ret, lastPut, scen, searchVars, browserVars, extractVars>>

\* fs.writeFile(messagesPath) is done
SaveWriteMessages(o) ==
    /\ ret = NoRet
    /\ o.kind = "save" /\ o.pc = "writeMessages"
    /\ disk' = [disk EXCEPT ![o.fileId].messages = Some(JsonStringify(o.messages))]
    /\ ops' = Replace(o, [o EXCEPT !.pc = "cacheSet"])
    /\ UNCHANGED <<cache, now, ret, lastPut, scen, searchVars, browserVars, extractVars>>

\* the continuation after the second write: cache.set, evictIfNeeded, return
SaveFinish(o) ==
    /\ ret = NoRet
    /\ o.kind = "save" /\ o.pc = "cacheSet"
    /\ LET set == CacheSet(cache, o.fileId,
                           CacheEntry(o.fileId, Get(o.meta), o.messages, now))
       IN  /\ cache' = evictIfNeeded(set)
           /\ ret' = [op |-> "put", fileId |-> o.fileId, status |-> "ok", hit |-> FALSE,
                      overlap |-> FALSE,
                      meta |-> o.meta, messages |-> Some(o.messages),
                      evicted |-> CacheKeys(set) \ CacheKeys(cache')]
    /\ ops' = ops (-) SetToBag({o})
    /\ lastPut' = [lastPut EXCEPT ![o.fileId] =
                      Some([meta |-> Get(o.meta), messages |-> o.messages])]
    /\ scen' = IF o.follows /\ scen >= 0 THEN scen + 1 ELSE Dead
    /\ UNCHANGED <<disk, now, searchVars, browserVars, extractVars>>

\* loadParsedFile on a cached fileId: refresh lastAccessMs and return
LoadHit(f) ==
    /\ ret = NoRet
    /\ f \in CacheKeys(cache)
    /\ LET cached == CacheGet(cache, f)
       IN  /\ cache' = [cache EXCEPT ![CacheIndex(cache, f)].lastAccessMs = now]
           /\ ret' = [op |-> "get", fileId |-> f, status |-> "ok", hit |-> TRUE,
                      overlap |-> FALSE,
                      meta |-> Some(cached.meta), messages |-> Some(cached.messages),
                      evicted |-> {}]
    /\ scen' = IF Follows("get", f) THEN scen + 1 ELSE Dead
    /\ UNCHANGED <<disk, now, ops, lastPut, searchVars, browserVars, extractVars>>

\* loadParsedFile on a fileId that is not cached: both reads are issued
LoadMiss(f) ==
    /\ ret = NoRet
    /\ f \notin CacheKeys(cache)
    /\ ops' = ops (+) SetToBag({[kind |-> "load", pc |-> "reading", fileId |-> f,
                                 originalName |-> <<>>, messages |-> <<>>,
                                 meta |-> Null, metaRaw |-> Null, messagesRaw |-> Null,
                                 overlap |-> \E o \in SavesInFlight : o.fileId = f,
                                 follows |-> FALSE]})
    /\ scen' = Dead
    /\ UNCHANGED <<disk, cache, now, ret, lastPut, searchVars, browserVars, extractVars>>

\* a read of a file that does not exist rejects, and with it Promise.all
LoadFails(o) ==
    /\ ops' = ops (-) SetToBag({o})
    /\ ret' = [op |-> "get", fileId |-> o.fileId, status |-> "error", hit |-> FALSE,
               overlap |-> o.overlap,
               meta |-> Null, messages |-> Null, evicted |-> {}]
    /\ UNCHANGED <<disk, cache, now, lastPut, scen, searchVars, browserVars, extractVars>>

\* fs.readFile(metaPath) completes
LoadReadMeta(o) ==
    /\ ret = NoRet
    /\ o.kind = "load" /\ o.pc = "reading" /\ o.metaRaw = Null
    /\ IF IsSome(disk[o.fileId].meta)
       THEN /\ ops' = Replace(o, [o EXCEPT !.metaRaw = disk[o.fileId].meta])
            /\ UNCHANGED <<disk, cache, now, ret, lastPut, scen, searchVars, browserVars, extractVars>>
       ELSE LoadFails(o)

\* fs.readFile(messagesPath) completes
LoadReadMessages(o) ==
    /\ ret = NoRet
    /\ o.kind = "load" /\ o.pc = "reading" /\ o.messagesRaw = Null
    /\ IF IsSome(disk[o.fileId].messages)
       THEN /\ ops' = Replace(o, [o EXCEPT !.messagesRaw = disk[o.fileId].messages])
            /\ UNCHANGED <<disk, cache, now, ret, lastPut, scen, searchVars, browserVars, extractVars>>
       ELSE LoadFails(o)

\* the continuation after Promise.all: parse, cache.set, evictIfNeeded, return
LoadFinish(o) ==
    /\ ret = NoRet
    /\ o.kind = "load" /\ o.pc = "reading"
    /\ IsSome(o.metaRaw) /\ IsSome(o.messagesRaw)
    /\ LET meta == JsonParse(Get(o.metaRaw))
           messages == JsonParse(Get(o.messagesRaw))
           set == CacheSet(cache, o.fileId, CacheEntry(o.fileId, meta, messages, now))
       IN  /\ cache' = evictIfNeeded(set)
           /\ ret' = [op |-> "get", fileId |-> o.fileId, status |-> "ok", hit |-> FALSE,
                      overlap |-> o.overlap,
                      meta |-> Some(meta), messages |-> Some(messages),
                      evicted |-> CacheKeys(set) \ CacheKeys(cache')]
    /\ ops' = ops (-) SetToBag({o})
    /\ UNCHANGED <<disk, now, lastPut, scen, searchVars, browserVars, extractVars>>

\* a put whose failed write leaves an entry in the cache all the same
SaveFails_KeepsEntry(o) ==
    /\ ret = NoRet
    /\ o.kind = "save" /\ o.pc \in {"ensureDir", "writeMeta", "writeMessages"}
    /\ ops' = ops (-) SetToBag({o})
    /\ cache' = CacheSet(cache, o.fileId,
                         CacheEntry(o.fileId, computeMeta(o.fileId, o.originalName, o.messages, now),
                                    o.messages, now))
    /\ ret' = [op |-> "put", fileId |-> o.fileId, status |-> "error", hit |-> FALSE,
               overlap |-> FALSE, meta |-> Null, messages |-> Null, evicted |-> {}]
    /\ scen' = Dead
    /\ UNCHANGED <<disk, now, lastPut, searchVars, browserVars, extractVars>>

\* the mkdir or writeFile that saveParsedFile awaits rejects: the rejection is
\* that of saveParsedFile, whose later statements do not run.  The file the
\* write was for is left as it was.
SaveFails(o) ==
    /\ ret = NoRet
    /\ o.kind = "save" /\ o.pc \in {"ensureDir", "writeMeta", "writeMessages"}
    /\ ops' = ops (-) SetToBag({o})
    /\ ret' = [op |-> "put", fileId |-> o.fileId, status |-> "error", hit |-> FALSE,
               overlap |-> FALSE, meta |-> Null, messages |-> Null, evicted |-> {}]
    /\ scen' = Dead
    /\ UNCHANGED <<disk, cache, now, lastPut, searchVars, browserVars, extractVars>>

\* a readFile of loadParsedFile rejects though the file is there
LoadReadError(o) ==
    /\ ret = NoRet
    /\ o.kind = "load" /\ o.pc = "reading"
    /\ LoadFails(o)

\* the caller's continuation takes the result
Deliver ==
    /\ ret # NoRet
    /\ ret' = NoRet
    /\ UNCHANGED <<disk, cache, now, ops, lastPut, scen, searchVars, browserVars, extractVars>>

\* the clock: Date.now() never decreases, and may stay the same between calls
Tick ==
    /\ ret = NoRet
    /\ now < MaxClock
    /\ now' = now + 1
    /\ UNCHANGED <<disk, cache, ops, ret, lastPut, scen, searchVars, browserVars, extractVars>>

\* the server process stops and starts again: the module state is lost, the
\* data directory is kept
Crash ==
    /\ ret = NoRet
    /\ cache' = <<>>
    /\ ops' = EmptyBag
    /\ scen' = Dead
    /\ UNCHANGED <<disk, now, ret, lastPut, searchVars, browserVars, extractVars>>

\* a route that answers a failed load with an empty page
searchRouteGET_EmptyPage(r, params) ==
    IF r.status = "ok"
    THEN [status |-> 200, fileId |-> r.fileId, meta |-> r.meta,
          total |-> searchMessages(Get(r.messages), params).total,
          offset |-> params.offset, limit |-> params.limit,
          results |-> searchMessages(Get(r.messages), params).results]
    ELSE [status |-> 200, fileId |-> r.fileId, meta |-> Null, total |-> 0,
          offset |-> params.offset, limit |-> params.limit, results |-> <<>>]

\* the search route's GET around one loadParsedFile outcome r: the JSON body
\* and status it answers with
searchRouteGET(r, params) ==
    IF r.status = "ok"
    THEN [status |-> 200, fileId |-> r.fileId, meta |-> r.meta,
          total |-> searchMessages(Get(r.messages), params).total,
          offset |-> params.offset, limit |-> params.limit,
          results |-> searchMessages(Get(r.messages), params).results]
    ELSE [status |-> 404, error |-> "Unknown fileId (not uploaded yet, or data was deleted)."]

-----------------------------------------------------------------------------
(* The query engine and the metadata aggregator called on their own *)

MaxMsgs == 3           \* messages in the list handed to the function
MaxOffset == 2         \* offsets 0..MaxOffset of a direct call
MaxLimit == 2          \* limits (page sizes) 1..MaxLimit

\* sender, text and timestampMs of the messages the lists are made of
MessagePool ==
    << [sender |-> SenderAva,  text |-> <<65, 32, 98>>, ts |-> Some(1)],      \* "A b"
       [sender |-> SenderNoah, text |-> <<97, 98>>,     ts |-> Some(2)],      \* "ab"
       [sender |-> SenderLower, text |-> <<98>>,        ts |-> Null],         \* "b"
       [sender |-> SenderNoah, text |-> <<97, 45, 98>>, ts |-> Some(0 - 2)] >> \* "a-b"

\* the list with the pool messages ix[1], ix[2], ...; ids are given in
\* extraction order
ListOf(ix) ==
    [ i \in 1..Len(ix) |->
        Msg(i, MessagePool[ix[i]].sender, MessagePool[ix[i]].text, MessagePool[ix[i]].ts) ]

MessageLists ==
    { ListOf(ix) : ix \in UNION { [1..n -> 1..Len(MessagePool)] : n \in 0..MaxMsgs } }

\* every combination of a text, an exclusion, a mode, a sender and time bounds
CrossQueries ==
    { [q |-> q, exclude |-> e, matchMode |-> m, sender |-> sd, fromMs |-> fr, toMs |-> to] :
        q \in { <<>>, <<32, 65, 32>>, <<97, 32, 98>> },          \* "", " A ", "a b"
        e \in { Null, Some(<<97, 98, 32, 45>>) },                \* "ab -"
        m \in { Null, Some(ModeWord) },
        sd \in { Null, Some(SenderAva) },
        fr \in { Null, Some(1) },
        to \in { Null, Some(1) } }

\* blank texts and exclusions, and the mode given as "substring"
BlankQueries ==
    { [q |-> q, exclude |-> e, matchMode |-> m, sender |-> Null, fromMs |-> Null, toMs |-> Null] :
        q \in { <<32, 32>>, <<98>> },                            \* "  ", "b"
        e \in { Null, Some(<<>>), Some(<<32>>), Some(<<32, 66>>) },  \* "", " ", " B"
        m \in { Some(ModeSubstring), Some(ModeWord) } }

Queries == CrossQueries \cup BlankQueries

\* SearchParams: the predicates of the query with the page asked for
WithPage(qry, offset, limit) ==
    [q |-> qry.q, exclude |-> qry.exclude, matchMode |-> qry.matchMode,
     sender |-> qry.sender, fromMs |-> qry.fromMs, toMs |-> qry.toMs,
     offset |-> offset, limit |-> limit]

NoOut == [op |-> "none"]

\* a search that sorts the array it is given
MessagesAfterSearch_SortedInPlace(messages, params) == StableSort(messages)

\* the array passed to searchMessages, as the call leaves it: the loop only
\* reads it, and push and sort act on filtered, an array of the call's own
MessagesAfterSearch(messages, params) == messages

\* searchMessages called with any offset and limit
Search(offset, limit) ==
    /\ out = NoOut
    /\ out' = [op |-> "search", offset |-> offset, limit |-> limit,
               total |-> searchMessages(list, WithPage(query, offset, limit)).total,
               results |-> searchMessages(list, WithPage(query, offset, limit)).results,
               pages |-> <<>>]
    /\ list' = MessagesAfterSearch(list, WithPage(query, offset, limit))
    /\ UNCHANGED <<query, storeVars, browserVars, extractVars>>

\* the same call once more, on the array the first call left; first keeps
\* what the first call returned
SearchAgain ==
    /\ out.op = "search"
    /\ out' = [op |-> "again", offset |-> out.offset, limit |-> out.limit,
               total |-> searchMessages(list, WithPage(query, out.offset, out.limit)).total,
               results |-> searchMessages(list, WithPage(query, out.offset, out.limit)).results,
               first |-> [total |-> out.total, results |-> out.results]]
    /\ list' = MessagesAfterSearch(list, WithPage(query, out.offset, out.limit))
    /\ UNCHANGED <<query, storeVars, browserVars, extractVars>>

\* the Search button: search(0); pages collects the hits shown since then
SearchFirstPage(limit) ==
    /\ out = NoOut
    /\ out' = [op |-> "page", offset |-> 0, limit |-> limit,
               total |-> searchMessages(list, WithPage(query, 0, limit)).total,
               results |-> searchMessages(list, WithPage(query, 0, limit)).results,
               pages |-> searchMessages(list, WithPage(query, 0, limit)).results]
    /\ UNCHANGED <<list, query, storeVars, browserVars, extractVars>>

\* the Next button, enabled while offset + limit < total: search(offset + limit)
SearchNextPage ==
    /\ out.op = "page"
    /\ out.offset + out.limit < out.total
    /\ LET nextOffset == out.offset + out.limit
           res == searchMessages(list, WithPage(query, nextOffset, out.limit))
       IN  out' = [op |-> "page", offset |-> nextOffset, limit |-> out.limit,
                   total |-> res.total, results |-> res.results,
                   pages |-> out.pages \o res.results]
    /\ UNCHANGED <<list, query, storeVars, browserVars, extractVars>>

\* computeMeta called on the list
Aggregate ==
    /\ out = NoOut
    /\ out' = [op |-> "meta", meta |-> computeMeta(1, NameA, list, now)]
    /\ UNCHANGED <<list, query, storeVars, browserVars, extractVars>>

InitSearch ==
    /\ list = <<>>
    /\ query = WithPage([q |-> <<>>, exclude |-> Null, matchMode |-> Null, sender |-> Null,
                         fromMs |-> Null, toMs |-> Null], 0, 0)
    /\ out = NoOut

\* n times the character c
Filled(c, n) == [ i \in 1..n |-> c ]

\* lengths of the text in front of and behind the term: none, and one less
\* than, as many as and one more than the snippet shows
FillLengths == {0, SnippetContext - 1, SnippetContext, SnippetContext + 1}

\* texts with the term "ab" in capital or small letters, once or twice, after
\* full stops or after characters U+0130, and before full stops
SnippetTexts ==
    { Filled(c, front) \o core \o Filled(46, back) :
        c \in {46, DottedI}, front \in FillLengths, back \in FillLengths,
        core \in { <<65, 98>>, <<97, 98, 46, 97, 66>> } }                 \* "Ab", "ab.aB"

\* lists of one message
SnippetLists == { <<Msg(1, SenderAva, text, Null)>> : text \in SnippetTexts }

SnippetQueries ==
    { [q |-> q, exclude |-> Null, matchMode |-> m, sender |-> Null, fromMs |-> Null, toMs |-> Null] :
        q \in { <<97, 98>>, <<32, 65, 66, 32>>, <<97>>, <<97, 98, 32, 46>>,   \* "ab", " AB ", "a", "ab ."
                <<>>, <<32, 9>> },                                            \* "", " \t"
        m \in { Null, Some(ModeWord) } }

-----------------------------------------------------------------------------
(* Browser application: the IndexedDB store and the upload *)

MaxBrowserFiles == 3   \* datasets the IndexedDB store can hold
MaxBatch == 2          \* files selected for one upload

BrowserIds == 1..MaxBrowserFiles

NameAUpper == <<65, 32>>               \* file name "A ", "a" once trimmed and lowercased

\* the files a user can select: a name and the messages its HTML parses to;
\* one file, named as a file with messages is, has no message block
UploadFiles ==
    { [name |-> n, messages |-> FirstUpload(c).messages] :
        n \in {NameA, NameAUpper, NameB}, c \in {1, 2} }
      \cup { [name |-> NameA, messages |-> <<>>] }

Batches == UNION { [1..n -> UploadFiles] : n \in 1..MaxBatch }

\* store.put of saveParsedFileBrowser: the record at key fileId is replaced or added
saveParsedFileBrowser(store, fileId, originalName, messages, clock) ==
    [store EXCEPT ![fileId] = Some([fileId |-> fileId,
                                    meta |-> computeMeta(fileId, originalName, messages, clock),
                                    messages |-> messages])]

loadParsedFileBrowser(store, fileId) ==
    IF fileId \in DOMAIN store /\ IsSome(store[fileId])
    THEN [status |-> "ok", fileId |-> fileId,
          meta |-> Some(Get(store[fileId]).meta), messages |-> Some(Get(store[fileId]).messages)]
    ELSE [status |-> "error", fileId |-> fileId, meta |-> Null, messages |-> Null]

StoredIds(store) == { f \in DOMAIN store : IsSome(store[f]) }

RECURSIVE InsertMeta(_, _)
\* m put after every listed meta that is not older than it
InsertMeta(sorted, m) ==
    IF sorted = <<>> THEN <<m>>
    ELSE IF m.createdAtMs - sorted[Len(sorted)].createdAtMs <= 0 THEN Append(sorted, m)
    ELSE Append(InsertMeta(SubSeq(sorted, 1, Len(sorted) - 1), m), sorted[Len(sorted)])

RECURSIVE GetAllMetas(_, _)
\* store.getAll(): the records in key order, from key f on; their metas
GetAllMetas(store, f) ==
    IF f \notin DOMAIN store THEN <<>>
    ELSE (IF IsSome(store[f]) THEN <<Get(store[f]).meta>> ELSE <<>>) \o GetAllMetas(store, f + 1)

RECURSIVE SortMetas(_)
SortMetas(metas) ==
    IF metas = <<>> THEN <<>>
    ELSE InsertMeta(SortMetas(SubSeq(metas, 1, Len(metas) - 1)), metas[Len(metas)])

\* the metas of all stored datasets, newest first
listStoredFilesBrowser(store) == SortMetas(GetAllMetas(store, 1))

\* the key of byName: the name trimmed and lowercased
NameKey(name) == toLowerCase(trim(name))

\* byName.get(key), byName having been filled from `existing` in order, a later
\* entry with the same key overwriting an earlier one
ByNameGet(existing, key) ==
    LET at == { i \in 1..Len(existing) : NameKey(existing[i].originalName) = key }
    IN  IF at = {} THEN Null ELSE Some(existing[SetMax(at)])

Idle == [pc |-> "idle"]

\* upload() up to its loop: the listing is read and kept
UploadStart(files, replaceOnName) ==
    /\ upl = Idle
    /\ files # <<>>
    /\ upl' = [pc |-> "loop", replaceOnName |-> replaceOnName,
               existing |-> listStoredFilesBrowser(idb),
               queue |-> files, created |-> <<>>]
    /\ UNCHANGED <<idb, active, loading, requested, storeVars, searchVars, extractVars>>

\* crypto.randomUUID(): an id no dataset has
NewId(store) == SetMin(BrowserIds \ StoredIds(store))

\* one turn of the loop over the HTML files: parse, choose the fileId, save
UploadFile ==
    /\ upl.pc = "loop"
    /\ upl.queue # <<>>
    /\ LET file == Head(upl.queue)
           existingMatch == ByNameGet(upl.existing, NameKey(file.name))
           reuse == upl.replaceOnName /\ IsSome(existingMatch)
       IN  /\ reuse \/ StoredIds(idb) # BrowserIds
           /\ LET newFileId == IF reuse THEN Get(existingMatch).fileId ELSE NewId(idb)
              IN  /\ idb' = saveParsedFileBrowser(idb, newFileId, file.name, file.messages, now)
                  /\ upl' = [upl EXCEPT !.queue = Tail(upl.queue),
                                        !.created = Append(upl.created,
                                            computeMeta(newFileId, file.name, file.messages, now))]
    /\ UNCHANGED <<active, loading, requested, storeVars, searchVars, extractVars>>

\* after the loop: the first dataset saved becomes the active one
UploadFinish ==
    /\ upl.pc = "loop"
    /\ upl.queue = <<>>
    /\ active' = loadParsedFileBrowser(idb, upl.created[1].fileId)
    /\ requested' = Some(upl.created[1].fileId)
    /\ upl' = Idle
    /\ UNCHANGED <<idb, loading, storeVars, searchVars, extractVars>>

InitBrowser ==
    /\ idb = [f \in BrowserIds |-> Null]
    /\ upl = Idle
    /\ active = [status |-> "none"]
    /\ loading = <<>>
    /\ requested = Null

-----------------------------------------------------------------------------
(* Browser application: the active dataset *)

MaxActiveLoads == 2    \* loadActiveFile calls in flight at once

\* the fileId state of the component
ActiveFileId == IF active.status = "ok" THEN Some(active.fileId) ELSE Null

\* loadActiveFile(nextFileId) up to its await, called by the dataset selector's
\* onChange (an option other than the one shown), by onSelectResult (a hit of a
\* dataset other than the active one) or by the effect of the first render
RequestActive(nextFileId) ==
    /\ Len(loading) < MaxActiveLoads
    /\ nextFileId \in StoredIds(idb)
    /\ ActiveFileId # Some(nextFileId)
    /\ loading' = Append(loading, [fileId |-> nextFileId, loaded |-> Null])
    /\ requested' = Some(nextFileId)
    /\ UNCHANGED <<idb, upl, active, storeVars, searchVars, extractVars>>

\* store.get of the i-th call in flight completes; a call whose fileId is not
\* stored rejects, which its callers ignore
LoadActiveRead(i) ==
    /\ i \in 1..Len(loading)
    /\ loading[i].loaded = Null
    /\ LET value == loadParsedFileBrowser(idb, loading[i].fileId)
       IN  loading' = IF value.status = "ok"
                      THEN [loading EXCEPT ![i].loaded = Some(value)]
                      ELSE RemoveAt(loading, i)
    /\ UNCHANGED <<idb, upl, active, requested, storeVars, searchVars, extractVars>>

\* the continuation of the i-th call: setFileId, setMeta, setMessages
LoadActiveSet(i) ==
    /\ i \in 1..Len(loading)
    /\ loading[i].loaded # Null
    /\ active' = Get(loading[i].loaded)
    /\ loading' = RemoveAt(loading, i)
    /\ UNCHANGED <<idb, upl, requested, storeVars, searchVars, extractVars>>

-----------------------------------------------------------------------------
(* Browser application: the search across all stored datasets *)

MaxDatasets == 2       \* datasets in the store of a merge search
MaxDatasetMsgs == 2    \* messages in each of them

\* a < b for the chronological order of the reader: oldest first, messages
\* without a timestamp last (+Infinity), ties in the order of the array
ChronoBefore(a, i, b, j) ==
    IF IsSome(a.timestampMs) /\ IsSome(b.timestampMs)
    THEN Get(a.timestampMs) < Get(b.timestampMs)
         \/ (Get(a.timestampMs) = Get(b.timestampMs) /\ i < j)
    ELSE IF IsSome(a.timestampMs) THEN TRUE
    ELSE IF IsSome(b.timestampMs) THEN FALSE
    ELSE i < j

\* idxById.get(id): the 1-based place of messages[i] in the sorted copy `ordered`
ChronoIndex(messages, i) ==
    1 + Cardinality({ j \in 1..Len(messages) : ChronoBefore(messages[j], j, messages[i], i) })

\* Math.max(1, entry.messages.length)
DatasetLimit(messages) == IF Len(messages) > 1 THEN Len(messages) ELSE 1

\* a merge that asks each dataset for its first hit only
MergeHits_FirstHit(entry, qry) ==
    LET res == searchMessages(entry.messages, WithPage(qry, 0, 1)).results
    IN  [ i \in 1..Len(res) |->
            [id |-> res[i].id, sender |-> res[i].sender,
             timestampRaw |-> res[i].timestampRaw, timestampMs |-> res[i].timestampMs,
             text |-> res[i].text, snippet |-> res[i].snippet,
             fileId |-> entry.fileId, fileName |-> entry.meta.originalName,
             messageIndex |-> ChronoIndex(entry.messages, res[i].id),
             key |-> <<entry.fileId, res[i].id>>] ]

\* the hits one loaded dataset adds to `merged`
MergeHits(entry, qry) ==
    LET res == searchMessages(entry.messages,
                              WithPage(qry, 0, DatasetLimit(entry.messages))).results
    IN  [ i \in 1..Len(res) |->
            [id |-> res[i].id, sender |-> res[i].sender,
             timestampRaw |-> res[i].timestampRaw, timestampMs |-> res[i].timestampMs,
             text |-> res[i].text, snippet |-> res[i].snippet,
             fileId |-> entry.fileId, fileName |-> entry.meta.originalName,
             messageIndex |-> ChronoIndex(entry.messages, res[i].id),
             key |-> <<entry.fileId, res[i].id>>] ]

RECURSIVE Merged(_, _)
\* `merged` before its sort: the hits of the loaded datasets, one dataset after
\* the other
Merged(loaded, qry) ==
    IF loaded = <<>> THEN <<>>
    ELSE MergeHits(Head(loaded), qry) \o Merged(Tail(loaded), qry)

\* search(nextOffset) with the scope "all": every listed dataset is loaded and
\* searched, the hits are sorted together and cut to the page
searchAll(store, storedFiles, qry, nextOffset, limit) ==
    LET loaded == [ i \in 1..Len(storedFiles) |->
                      loadParsedFileBrowser(store, storedFiles[i].fileId) ]
        entries == [ i \in 1..Len(loaded) |->
                      [fileId |-> loaded[i].fileId, meta |-> Get(loaded[i].meta),
                       messages |-> Get(loaded[i].messages)] ]
    IN  IF \E i \in 1..Len(loaded) : loaded[i].status = "error"
        THEN [op |-> "merge", status |-> "error"]
        ELSE [op |-> "merge", status |-> "ok", offset |-> nextOffset, limit |-> limit,
              total |-> Len(StableSort(Merged(entries, qry))),
              results |-> slice(StableSort(Merged(entries, qry)), nextOffset, nextOffset + limit)]

\* the messages a dataset of the store is made of
DatasetLists ==
    { ListOf(ix) : ix \in UNION { [1..n -> 1..Len(MessagePool)] : n \in 0..MaxDatasetMsgs } }

\* the store after the datasets ds[1], ds[2], ... were saved one after the other
StoreWith(ds) ==
    [ f \in BrowserIds |->
        IF f <= Len(ds)
        THEN Some([fileId |-> f,
                   meta |-> computeMeta(f, IF f % 2 = 1 THEN NameA ELSE NameB, ds[f], f),
                   messages |-> ds[f]])
        ELSE Null ]

Stores == { StoreWith(ds) : ds \in UNION { [1..n -> DatasetLists] : n \in 0..MaxDatasets } }

\* the stores the page is opened on: two or three datasets of different messages
ActiveStores ==
    { StoreWith(<<ListOf(<<1>>), ListOf(<<2>>)>>),
      StoreWith(<<ListOf(<<1>>), ListOf(<<2>>), ListOf(<<1, 2>>)>>) }

\* the Search button with the scope "all"
MergeSearch(nextOffset, limit) ==
    /\ out = NoOut
    /\ listStoredFilesBrowser(idb) # <<>>
    /\ out' = searchAll(idb, listStoredFilesBrowser(idb), query, nextOffset, limit)
    /\ UNCHANGED <<list, query, storeVars, browserVars, extractVars>>

-----------------------------------------------------------------------------
(* Extraction: the messages of a parsed document *)

MaxBlocks == 3         \* message blocks of a document: 0..MaxBlocks

SenderUnknown == <<85, 110, 107, 110, 111, 119, 110>>   \* "Unknown"

RECURSIVE CollapseWhitespace(_)
\* value.replace(/\s+/g, " "): every maximal run of whitespace becomes one space
CollapseWhitespace(value) ==
    IF value = <<>> THEN <<>>
    ELSE IF IsSpace(value[1])
         THEN <<32>> \o CollapseWhitespace(TrimStart(value))
         ELSE <<value[1]>> \o CollapseWhitespace(Tail(value))

normalizeWhitespace(value) == trim(CollapseWhitespace(value))

\* the month table: lowercase name and month index
MONTHS ==
    {
      <<<<106, 97, 110>>, 0>>,
      <<<<106, 97, 110, 117, 97, 114, 121>>, 0>>,
      <<<<102, 101, 98>>, 1>>,
      <<<<102, 101, 98, 114, 117, 97, 114, 121>>, 1>>,
      <<<<109, 97, 114>>, 2>>,
      <<<<109, 97, 114, 99, 104>>, 2>>,
      <<<<97, 112, 114>>, 3>>,
      <<<<97, 112, 114, 105, 108>>, 3>>,
      <<<<109, 97, 121>>, 4>>,
      <<<<106, 117, 110>>, 5>>,
      <<<<106, 117, 110, 101>>, 5>>,
      <<<<106, 117, 108>>, 6>>,
      <<<<106, 117, 108, 121>>, 6>>,
      <<<<97, 117, 103>>, 7>>,
      <<<<97, 117, 103, 117, 115, 116>>, 7>>,
      <<<<115, 101, 112>>, 8>>,
      <<<<115, 101, 112, 116>>, 8>>,
      <<<<115, 101, 112, 116, 101, 109, 98, 101, 114>>, 8>>,
      <<<<111, 99, 116>>, 9>>,
      <<<<111, 99, 116, 111, 98, 101, 114>>, 9>>,
      <<<<110, 111, 118>>, 10>>,
      <<<<110, 111, 118, 101, 109, 98, 101, 114>>, 10>>,
      <<<<100, 101, 99>>, 11>>,
      <<<<100, 101, 99, 101, 109, 98, 101, 114>>, 11>>
    }

IsDigit(c) == c >= 48 /\ c <= 57
IsLetter(c) == (c >= 65 /\ c <= 90) \/ (c >= 97 /\ c <= 122)

\* the classes of characters the pattern of the timestamp names
InClass(c, class) ==
    CASE class = "letter" -> IsLetter(c)
      [] class = "digit" -> IsDigit(c)
      [] class = "space" -> IsSpace(c)
      [] class = "comma" -> c = 44
      [] class = "colon" -> c = 58
      [] class = "ap" -> LowerChar(c) \in {97, 112}
      [] class = "m" -> LowerChar(c) = 109

\* the length of the longest run of characters of a class that starts at
\* position p of str
Run(str, p, class) ==
    CHOOSE n \in 0..(Len(str) + 1 - p) :
        /\ \A k \in p..(p + n - 1) : InClass(str[k], class)
        /\ (p + n > Len(str) \/ ~InClass(str[p + n], class))

RECURSIVE ToNumber(_)
\* Number() of a string of decimal digits
ToNumber(digits) ==
    IF digits = <<>> THEN 0
    ELSE 10 * ToNumber(SubSeq(digits, 1, Len(digits) - 1)) + (digits[Len(digits)] - 48)

Piece(class, atLeast, atMost) == [class |-> class, atLeast |-> atLeast, atMost |-> atMost]

\* /^([A-Za-z]{3,9})\s+(\d{1,2}),\s*(\d{4})\s+(\d{1,2}):(\d{2})\s*([ap]m)$/i, piece by
\* piece: a class of characters, and how many of them at least and at most
TimestampPattern ==
    << Piece("letter", 3, Some(9)), Piece("space", 1, Null), Piece("digit", 1, Some(2)),
       Piece("comma", 1, Some(1)), Piece("space", 0, Null), Piece("digit", 4, Some(4)),
       Piece("space", 1, Null), Piece("digit", 1, Some(2)), Piece("colon", 1, Some(1)),
       Piece("digit", 2, Some(2)), Piece("space", 0, Null), Piece("ap", 1, Some(1)),
       Piece("m", 1, Some(1)) >>

\* the value there is one of
The(S) == CHOOSE x \in S : TRUE

RECURSIVE MatchPieces(_, _, _)
\* the match of the pieces k, k + 1, ... of the pattern on str from position p
\* to its end: what each piece takes, or nothing.  Neighbouring pieces take
\* characters of different classes, so a piece takes its whole run.
MatchPieces(str, p, k) ==
    IF k > Len(TimestampPattern)
    THEN (IF p = Len(str) + 1 THEN Some(<<>>) ELSE Null)
    ELSE The({ IF \/ n < TimestampPattern[k].atLeast
                  \/ (IsSome(TimestampPattern[k].atMost) /\ n > Get(TimestampPattern[k].atMost))
               THEN Null
               ELSE The({ IF IsSome(rest)
                          THEN Some(<<SubSeq(str, p, p + n - 1)>> \o Get(rest))
                          ELSE Null : rest \in {MatchPieces(str, p + n, k + 1)} })
               : n \in {Run(str, p, TimestampPattern[k].class)} })

\* trimmed.match(...): the six groups of the match, or nothing
StructuredMatch(str) ==
    The({ IF IsSome(g)
          THEN Some([monthName |-> toLowerCase(Get(g)[1]),
                     day |-> ToNumber(Get(g)[3]),
                     year |-> ToNumber(Get(g)[6]),
                     hour |-> ToNumber(Get(g)[8]),
                     minute |-> ToNumber(Get(g)[10]),
                     ampm |-> toLowerCase(Get(g)[12] \o Get(g)[13])])
          ELSE Null : g \in {MatchPieces(str, 1, 1)} })

Am == <<97, 109>>                      \* "am"
Pm == <<112, 109>>                     \* "pm"

\* a converter to the 24-hour clock that adds 12 to every pm hour
Hour24_NoonPlus12(hour, ampm) ==
    IF ampm = Pm THEN hour + 12
    ELSE IF ampm = Am /\ hour = 12 THEN 0
    ELSE hour

\* if (ampm === "pm" && hour < 12) hour += 12; if (ampm === "am" && hour === 12) hour = 0;
Hour24(hour, ampm) ==
    IF ampm = Pm /\ hour < 12 THEN hour + 12
    ELSE IF ampm = Am /\ hour = 12 THEN 0
    ELSE hour

\* new Date(year, month, day, hour, minute, 0, 0).getTime(), counted in minutes
\* since 1970-01-01 00:00 (seconds and milliseconds are 0), with local time
\* taken as UTC.  Days, hours and minutes beyond their range carry over, and a
\* year 0..99 means 1900 + year, as the Date constructor has it.
DateLocal(year, month, day, hour, minute) ==
    LET full == IF year >= 0 /\ year <= 99 THEN 1900 + year ELSE year
        m == month + 1
        y == IF m <= 2 THEN full - 1 ELSE full
        era == y \div 400
        yoe == y - era * 400
        mp == IF m > 2 THEN m - 3 ELSE m + 9
        doy == (153 * mp + 2) \div 5 + day - 1
        doe == yoe * 365 + yoe \div 4 - yoe \div 100 + doy
        days == era * 146097 + doe - 719468
    IN  days * 1440 + hour * 60 + minute

IsoStamp == <<50, 48, 50, 51, 45, 48, 51, 45, 49, 54, 84, 50, 51, 58, 50, 51, 58, 48, 48, 90>>   \* "2023-03-16T23:23:00Z"

\* Date.parse(trimmed): a number for a string in the date-time format of the
\* language standard (here the one such string of the inputs), NaN (Null) for
\* every other string; the structured format is not in the standard
DateParse(str) ==
    IF str = IsoStamp THEN Some(DateLocal(2023, 2, 16, 23, 23)) ELSE Null

\* the month index of a lowercase month name, or nothing
MonthIndex(name) ==
    IF \E e \in MONTHS : e[1] = name
    THEN Some((CHOOSE e \in MONTHS : e[1] = name)[2])
    ELSE Null

\* Date.parse first, then the structured format; a 4-digit year always gives
\* a valid Date, so the isNaN test of the structured branch never fires
parseTimestampMs(value) ==
    LET trimmed == trim(value)
        direct == DateParse(trimmed)
        m == StructuredMatch(trimmed)
    IN  IF trimmed = <<>> THEN Null
        ELSE IF IsSome(direct) THEN direct
        ELSE IF IsSome(m)
             THEN IF IsSome(MonthIndex(Get(m).monthName))
                  THEN Some(DateLocal(Get(m).year, Get(MonthIndex(Get(m).monthName)), Get(m).day,
                                      Hour24(Get(m).hour, Get(m).ampm), Get(m).minute))
                  ELSE Null
             ELSE Null

\* a document: the elements each of the three selectors finds.  A block has an
\* optional h2 text, an optional content element (div._a6-p) made of text
\* nodes, some of them inside a ul, and an optional timestamp element
\* (div._a6-o).
pickMessageBlocks(d) ==
    IF d.mainPam # <<>> THEN d.mainPam
    ELSE IF d.pam # <<>> THEN d.pam
    ELSE d.a6g

RECURSIVE TextWithoutLists(_)
\* textContent of the content element's clone once every ul is removed
TextWithoutLists(nodes) ==
    IF nodes = <<>> THEN <<>>
    ELSE (IF nodes[1].ul THEN <<>> ELSE nodes[1].text) \o TextWithoutLists(Tail(nodes))

\* normalizeWhitespace(block.querySelector("h2")?.textContent ?? "") || "Unknown"
SenderOf(block) ==
    LET s == normalizeWhitespace(IF IsSome(block.heading) THEN Get(block.heading) ELSE <<>>)
    IN  IF s = <<>> THEN SenderUnknown ELSE s

BodyOf(block) == normalizeWhitespace(TextWithoutLists(Get(block.content)))

StampOf(block) ==
    normalizeWhitespace(IF IsSome(block.stamp) THEN Get(block.stamp) ELSE <<>>)

RECURSIVE ExtractBlocks_KeepEmpty(_, _)
\* an extraction that skips a block only when it has no content element
ExtractBlocks_KeepEmpty(blocks, messages) ==
    IF blocks = <<>> THEN messages
    ELSE IF ~IsSome(blocks[1].content)
         THEN ExtractBlocks_KeepEmpty(Tail(blocks), messages)
    ELSE ExtractBlocks_KeepEmpty(Tail(blocks), Append(messages,
             [id |-> Len(messages) + 1,
              sender |-> SenderOf(blocks[1]),
              text |-> BodyOf(blocks[1]),
              textNorm |-> toLowerCase(BodyOf(blocks[1])),
              timestampRaw |-> StampOf(blocks[1]),
              timestampMs |-> parseTimestampMs(StampOf(blocks[1]))]))

RECURSIVE ExtractBlocks_StopAtDefect(_, _)
\* an extraction that gives up at the first block without a usable heading or
\* timestamp
ExtractBlocks_StopAtDefect(blocks, messages) ==
    IF blocks = <<>> THEN messages
    ELSE IF ~IsSome(blocks[1].content) \/ BodyOf(blocks[1]) = <<>>
         THEN ExtractBlocks_StopAtDefect(Tail(blocks), messages)
    ELSE IF SenderOf(blocks[1]) = SenderUnknown \/ ~IsSome(parseTimestampMs(StampOf(blocks[1])))
         THEN Append(messages,
             [id |-> Len(messages) + 1,
              sender |-> SenderOf(blocks[1]),
              text |-> BodyOf(blocks[1]),
              textNorm |-> toLowerCase(BodyOf(blocks[1])),
              timestampRaw |-> StampOf(blocks[1]),
              timestampMs |-> parseTimestampMs(StampOf(blocks[1]))])
    ELSE ExtractBlocks_StopAtDefect(Tail(blocks), Append(messages,
             [id |-> Len(messages) + 1,
              sender |-> SenderOf(blocks[1]),
              text |-> BodyOf(blocks[1]),
              textNorm |-> toLowerCase(BodyOf(blocks[1])),
              timestampRaw |-> StampOf(blocks[1]),
              timestampMs |-> parseTimestampMs(StampOf(blocks[1]))]))

RECURSIVE ExtractBlocks(_, _)
\* the loop over the blocks: a block without content element or with an empty
\* body is passed over, every other block appends one message; the id of a
\* message (crypto.randomUUID()) is its position among the emitted ones
ExtractBlocks(blocks, messages) ==
    IF blocks = <<>> THEN messages
    ELSE IF ~IsSome(blocks[1].content) \/ BodyOf(blocks[1]) = <<>>
         THEN ExtractBlocks(Tail(blocks), messages)
    ELSE ExtractBlocks(Tail(blocks), Append(messages,
             [id |-> Len(messages) + 1,
              sender |-> SenderOf(blocks[1]),
              text |-> BodyOf(blocks[1]),
              textNorm |-> toLowerCase(BodyOf(blocks[1])),
              timestampRaw |-> StampOf(blocks[1]),
              timestampMs |-> parseTimestampMs(StampOf(blocks[1]))]))

parseMessagesFromHtmlBrowser(d) == ExtractBlocks(pickMessageBlocks(d), <<>>)

StampMarch == <<77, 97, 114, 32, 49, 54, 44, 32, 50, 48, 50, 51, 32, 49, 49, 58, 50, 51, 32, 112, 109>>   \* "Mar 16, 2023 11:23 pm"
StampSpaced == <<32, 83, 101, 112, 116, 32, 57, 44, 50, 48, 50, 51, 10, 32, 49, 50, 58, 48, 53, 65, 77, 32>>   \* " Sept 9,2023\n 12:05AM "
StampWords == <<97, 32, 32, 119, 104, 105, 108, 101, 32, 97, 103, 111>>   \* "a  while ago"
StampNoMonth == <<70, 111, 111, 32, 49, 44, 32, 50, 48, 50, 52, 32, 49, 58, 48, 48, 32, 97, 109>>   \* "Foo 1, 2024 1:00 am"

TextNode(text) == [ul |-> FALSE, text |-> text]
ListNode(text) == [ul |-> TRUE, text |-> text]

\* the blocks the documents are made of
BlockPool ==
    << [heading |-> Some(SenderAva), stamp |-> Some(StampMarch),
        content |-> Some(<<TextNode(<<72, 105, 32, 32, 84, 104, 101, 114, 101>>)>>)],                       \* "Hi  There"
       [heading |-> Null, stamp |-> Some(StampWords),
        content |-> Some(<<TextNode(<<32, 79, 75, 10>>)>>)],                            \* " OK\n"
       [heading |-> Some(<<32, 160>>), stamp |-> Null,
        content |-> Some(<<ListNode(<<10084>>), TextNode(<<89, 111>>)>>)],       \* a reaction list, then "Yo"
       [heading |-> Some(SenderNoah), stamp |-> Some(StampSpaced),
        content |-> Null],
       [heading |-> Some(SenderNoah), stamp |-> Some(IsoStamp),
        content |-> Some(<<ListNode(<<10084>>), TextNode(<<32, 9>>)>>)],  \* a reaction list and blanks
       [heading |-> Some(SenderNoah), stamp |-> Some(IsoStamp),
        content |-> Some(<<TextNode(<<66>>)>>)],                          \* "B"
       [heading |-> Some(SenderAva), stamp |-> Some(StampSpaced),
        content |-> Some(<<TextNode(<<97>>), TextNode(<<32, 98>>)>>)],    \* "a", " b"
       [heading |-> Some(SenderAva), stamp |-> Some(StampNoMonth),
        content |-> Some(<<TextNode(<<99>>)>>)] >>                        \* "c"

BlocksOf(ix) == [ i \in 1..Len(ix) |-> BlockPool[ix[i]] ]

BlockLists ==
    { BlocksOf(ix) : ix \in UNION { [1..n -> 1..Len(BlockPool)] : n \in 0..MaxBlocks } }

\* the blocks found by the first, the second or the third selector; main
\* div.pam elements are div.pam elements too, and a div._a6-g element of a
\* document with div.pam blocks is no block
DocumentWith(blocks, selector) ==
    [mainPam |-> IF selector = 1 THEN blocks ELSE <<>>,
     pam |-> IF selector <= 2 THEN blocks ELSE <<>>,
     a6g |-> IF selector = 3 THEN blocks ELSE <<BlockPool[6]>>]

\* the capitalised short month names, in calendar order
MonthNames ==
    <<
       <<74, 97, 110>>,
       <<70, 101, 98>>,
       <<77, 97, 114>>,
       <<65, 112, 114>>,
       <<77, 97, 121>>,
       <<74, 117, 110>>,
       <<74, 117, 108>>,
       <<65, 117, 103>>,
       <<83, 101, 112>>,
       <<79, 99, 116>>,
       <<78, 111, 118>>,
       <<68, 101, 99>>
    >>

RECURSIVE Digits(_)
\* the decimal digits of a natural number
Digits(n) == IF n < 10 THEN <<48 + n>> ELSE Digits(n \div 10) \o <<48 + (n % 10)>>

\* the two digits of a minute
TwoDigits(n) == <<48 + (n \div 10), 48 + (n % 10)>>

\* "<Month> <Day>, <Year> <Hour>:<Minute> <am|pm>"
MakeStamp(f) ==
    MonthNames[f.month] \o <<32>> \o Digits(f.day) \o <<44, 32>> \o Digits(f.year) \o <<32>>
      \o Digits(f.hour) \o <<58>> \o TwoDigits(f.minute) \o <<32>> \o f.ampm

\* the timestamps in the structured format: every month, every hour of the
\* 12-hour clock, am and pm in either case
StampFields ==
    [month : 1..12, day : {1, 16}, year : {2023}, hour : 1..12, minute : {5, 23},
     ampm : {Am, Pm, <<80, 77>>}]

StampDocuments ==
    { DocumentWith(<<[heading |-> Some(SenderAva), stamp |-> Some(MakeStamp(f)),
                      content |-> Some(<<TextNode(<<66>>)>>)]>>, 1) : f \in StampFields }

Documents ==
    { DocumentWith(blocks, selector) : blocks \in BlockLists, selector \in 1..3 }
      \cup StampDocuments

NoDoc == [mainPam |-> <<>>, pam |-> <<>>, a6g |-> <<>>]

\* parseMessagesFromHtmlBrowser applied to the document
Extract ==
    /\ out = NoOut
    /\ out' = [op |-> "extract", messages |-> parseMessagesFromHtmlBrowser(doc)]
    /\ UNCHANGED <<list, query, doc, storeVars, browserVars>>

-----------------------------------------------------------------------------
(* The search route: the page asked for in the URL *)

Infinity == <<73, 110, 102, 105, 110, 105, 116, 121>>     \* "Infinity"

\* Number(value) of a string: whitespace at the ends is dropped; the empty
\* string is 0, a decimal integer with or without sign is its value, a signed
\* or unsigned "Infinity" is infinite, any other string of the requests is
\* NaN.  (Literals with a fraction, an exponent or a radix prefix are not among
\* the requests.)
NumberOfString(value) ==
    The({ IF t = <<>> THEN [tag |-> "finite", n |-> 0]
          ELSE IF \A i \in 1..Len(t) : IsDigit(t[i])
               THEN [tag |-> "finite", n |-> ToNumber(t)]
          ELSE IF t[1] \in {43, 45} /\ Len(t) > 1 /\ \A i \in 2..Len(t) : IsDigit(t[i])
               THEN [tag |-> "finite",
                     n |-> IF t[1] = 45 THEN 0 - ToNumber(Tail(t)) ELSE ToNumber(Tail(t))]
          ELSE IF t = Infinity \/ (t[1] \in {43, 45} /\ Tail(t) = Infinity)
               THEN [tag |-> "infinite"]
          ELSE [tag |-> "NaN"] : t \in {trim(value)} })

\* const n = value ? Number(value) : NaN; return Number.isFinite(n) ? n : fallback
parseNumber(value, fallback) ==
    IF IsSome(value) /\ Get(value) # <<>> /\ NumberOfString(Get(value)).tag = "finite"
    THEN NumberOfString(Get(value)).n
    ELSE fallback

Max(a, b) == IF a > b THEN a ELSE b
Min(a, b) == IF a < b THEN a ELSE b

\* a route that hands the limit of the URL on as long as it is positive
searchRouteParams_NoCeiling(request) ==
    [q |-> IF IsSome(request.q) THEN Get(request.q) ELSE <<>>,
     exclude |-> Null, matchMode |-> Null, sender |-> Null, fromMs |-> Null, toMs |-> Null,
     offset |-> Max(0, parseNumber(request.offset, 0)),
     limit |-> Max(1, parseNumber(request.limit, 50))]

\* the SearchParams the route builds from the URL (requests carry no sender,
\* from or to)
searchRouteParams(request) ==
    [q |-> IF IsSome(request.q) THEN Get(request.q) ELSE <<>>,
     exclude |-> Null, matchMode |-> Null, sender |-> Null, fromMs |-> Null, toMs |-> Null,
     offset |-> Max(0, parseNumber(request.offset, 0)),
     limit |-> Min(200, Max(1, parseNumber(request.limit, 50)))]

FileOne == <<102, 49>>                 \* fileId "f1", the stored dataset
FileTwo == <<102, 50>>                 \* fileId "f2", not stored

\* what loadParsedFile gives the route when dataset "f1" holds the messages
LoadForRoute(fileId, messages) ==
    IF fileId = FileOne
    THEN [status |-> "ok", fileId |-> fileId,
          meta |-> Some(computeMeta(fileId, NameA, messages, 0)), messages |-> Some(messages)]
    ELSE [status |-> "error", fileId |-> fileId, meta |-> Null, messages |-> Null]

\* the search route's GET: 400 without fileId, else the answer to the load
GET(request, messages) ==
    IF ~IsSome(request.fileId) \/ Get(request.fileId) = <<>>
    THEN [status |-> 400, error |-> "Missing query param 'fileId'."]
    ELSE searchRouteGET(LoadForRoute(Get(request.fileId), messages), searchRouteParams(request))

\* the text of an integer
NumberText(k) == IF k < 0 THEN <<45>> \o Digits(0 - k) ELSE Digits(k)

\* the integers a URL gives as offset or limit
UrlNumbers == {0 - 2, 0, 1, 2, 199, 200, 201}

\* the values a URL gives as offset or limit that are no finite number
UrlNoNumbers == {Null, Some(<<>>), Some(<<97, 98, 99>>), Some(Infinity), Some(<<45>> \o Infinity)}

\* a value of whitespace only, which Number() takes to be 0
UrlBlank == Some(<<32>>)

UrlValues == { Some(NumberText(k)) : k \in UrlNumbers } \cup UrlNoNumbers \cup {UrlBlank}

RouteRequests ==
    [fileId : {Null, Some(FileOne), Some(FileTwo)}, q : {Null, Some(<<98>>)},
     offset : UrlValues, limit : UrlValues]

\* one request served; the SearchParams handed to searchMessages are kept
RouteGet ==
    /\ out = NoOut
    /\ out' = [op |-> "route",
               params |-> searchRouteParams(query),
               response |-> GET(query, list)]
    /\ UNCHANGED <<list, query, doc, storeVars, browserVars>>

-----------------------------------------------------------------------------
(* Specifications *)

InitStore ==
    /\ disk = [f \in FileIds |-> [meta |-> Null, messages |-> Null]]
    /\ cache = <<>>
    /\ now = 0
    /\ ops = EmptyBag
    /\ ret = NoRet
    /\ lastPut = [f \in FileIds |-> Null]
    /\ scen = 0

\* the fileIds some upload has been given
Allocated ==
    { f \in FileIds : IsSome(disk[f].meta) \/ \E o \in SavesInFlight : o.fileId = f }

\* crypto.randomUUID() of the upload route: an id no upload was given before
FreshId(f) == f \notin Allocated /\ \A g \in FileIds : g < f => g \in Allocated

Init == InitStore /\ InitSearch /\ InitBrowser /\ doc = NoDoc

\* the fileIds a later put replaces
ReplacedFiles == {1}

\* the store with all its fileIds: uploads under fresh ids, puts that replace
\* the dataset of a ReplacedFiles id, gets of any id
Next ==
    \/ \E f \in FileIds :
          /\ NumSaves < MaxSaves
          /\ FreshId(f)
          /\ SaveCall(f, FirstUpload(f))
    \/ \E f \in ReplacedFiles :
          /\ NumSaves < MaxSaves
          /\ f \in Allocated
          /\ SaveCall(f, SecondUpload(f))
    \/ \E o \in InFlight : SaveEnsureDir(o)
    \/ \E o \in InFlight : SaveWriteMeta(o)
    \/ \E o \in InFlight : SaveWriteMessages(o)
    \/ \E o \in InFlight : SaveFinish(o)
    \/ \E f \in FileIds : LoadHit(f)
    \/ \E f \in FileIds : NumLoads < MaxLoads /\ LoadMiss(f)
    \/ \E o \in InFlight : LoadReadMeta(o)
    \/ \E o \in InFlight : LoadReadMessages(o)
    \/ \E o \in InFlight : LoadFinish(o)
    \/ Deliver
    \/ Tick

Spec == Init /\ [][Next]_vars

\* the store with crashes: one fileId, put with either
\* upload, so that a put can replace a dataset by a different one
CrashFiles == {1}

NextCrash ==
    \/ \E f \in CrashFiles :
          \E u \in {FirstUpload(f), SecondUpload(f)} :
              NumSaves < MaxSaves /\ SaveCall(f, u)
    \/ \E o \in InFlight : SaveEnsureDir(o)
    \/ \E o \in InFlight : SaveWriteMeta(o)
    \/ \E o \in InFlight : SaveWriteMessages(o)
    \/ \E o \in InFlight : SaveFinish(o)
    \/ \E f \in CrashFiles : LoadHit(f)
    \/ \E f \in CrashFiles : NumLoads < MaxLoads /\ LoadMiss(f)
    \/ \E o \in InFlight : LoadReadMeta(o)
    \/ \E o \in InFlight : LoadReadMessages(o)
    \/ \E o \in InFlight : LoadFinish(o)
    \/ Deliver
    \/ Tick
    \/ Crash

SpecCrash == Init /\ [][NextCrash]_vars

\* the store with failing I/O: puts, of either upload for a ReplacedFiles id,
\* gets, and a mkdir, write or read that rejects
FailFiles == {1, 2}

NextFail ==
    \/ \E f \in FailFiles :
          \E u \in {FirstUpload(f)} \cup {SecondUpload(g) : g \in FailFiles \cap ReplacedFiles \cap {f}} :
              NumSaves < MaxSaves /\ SaveCall(f, u)
    \/ \E o \in InFlight : SaveEnsureDir(o)
    \/ \E o \in InFlight : SaveWriteMeta(o)
    \/ \E o \in InFlight : SaveWriteMessages(o)
    \/ \E o \in InFlight : SaveFinish(o)
    \/ \E o \in InFlight : SaveFails(o)
    \/ \E f \in FailFiles : LoadHit(f)
    \/ \E f \in FailFiles : NumLoads < MaxLoads /\ LoadMiss(f)
    \/ \E o \in InFlight : LoadReadMeta(o)
    \/ \E o \in InFlight : LoadReadMessages(o)
    \/ \E o \in InFlight : LoadFinish(o)
    \/ \E o \in InFlight : LoadReadError(o)
    \/ Deliver
    \/ Tick

SpecFail == Init /\ [][NextFail]_vars

\* the query engine and the aggregator on every list and query of the pools
InitPure ==
    /\ InitStore
    /\ InitBrowser
    /\ list \in MessageLists
    /\ query \in Queries
    /\ out = NoOut
    /\ doc = NoDoc

NextSearch ==
    \/ \E offset \in 0..MaxOffset : \E limit \in 1..MaxLimit : Search(offset, limit)
    \/ \E limit \in 1..MaxLimit : SearchFirstPage(limit)
    \/ SearchNextPage
    \/ SearchAgain
    \/ Aggregate

SpecSearch == InitPure /\ [][NextSearch]_vars

\* uploads in the browser, one after the other
NextUpload ==
    \/ \E files \in Batches : \E replaceOnName \in BOOLEAN : UploadStart(files, replaceOnName)
    \/ UploadFile
    \/ UploadFinish
    \/ Tick

SpecUpload == Init /\ [][NextUpload]_vars

\* uploads in the browser with "replace if name matches" enabled every time,
\* on a store that is empty at first
NextReplace ==
    \/ \E files \in Batches : UploadStart(files, TRUE)
    \/ UploadFile
    \/ UploadFinish
    \/ Tick

SpecReplace == Init /\ [][NextReplace]_vars

\* the page choosing its active dataset over a store that stays as it is
InitActive ==
    /\ InitStore
    /\ InitSearch
    /\ idb \in ActiveStores
    /\ upl = Idle
    /\ active = [status |-> "none"]
    /\ loading = <<>>
    /\ requested = Null
    /\ doc = NoDoc

NextActive ==
    \/ \E nextFileId \in BrowserIds : RequestActive(nextFileId)
    \/ \E i \in 1..MaxActiveLoads : LoadActiveRead(i)
    \/ \E i \in 1..MaxActiveLoads : LoadActiveSet(i)

SpecActive == InitActive /\ [][NextActive]_vars

\* the search across all datasets, on every store and query of the pools
InitMerge ==
    /\ InitStore
    /\ list = <<>>
    /\ query \in Queries
    /\ out = NoOut
    /\ idb \in Stores
    /\ upl = Idle
    /\ active = [status |-> "none"]
    /\ loading = <<>>
    /\ requested = Null
    /\ doc = NoDoc

NextMerge ==
    \E nextOffset \in 0..MaxOffset : \E limit \in 1..MaxLimit : MergeSearch(nextOffset, limit)

SpecMerge == InitMerge /\ [][NextMerge]_vars

\* the query engine on long texts: what a hit shows of its message
InitSnippet ==
    /\ InitStore
    /\ InitBrowser
    /\ list \in SnippetLists
    /\ query \in SnippetQueries
    /\ out = NoOut
    /\ doc = NoDoc

NextSnippet ==
    \E offset \in 0..MaxOffset : \E limit \in 1..MaxLimit : Search(offset, limit)

SpecSnippet == InitSnippet /\ [][NextSnippet]_vars

\* the search route, on every request of the pool
InitRoute ==
    /\ InitStore
    /\ InitBrowser
    /\ list \in { ListOf(ix) : ix \in {<<>>, <<1, 2, 3>>} }
    /\ query \in RouteRequests
    /\ out = NoOut
    /\ doc = NoDoc

NextRoute == RouteGet

SpecRoute == InitRoute /\ [][NextRoute]_vars

\* the extraction, on every document of the pool
InitExtract ==
    /\ InitStore
    /\ InitSearch
    /\ InitBrowser
    /\ doc \in Documents

NextExtract == Extract

SpecExtract == InitExtract /\ [][NextExtract]_vars

-----------------------------------------------------------------------------
(* Properties of the server-side record store *)

\* the keys a step takes out of the cache, and those it puts in
Removed == CacheKeys(cache) \ CacheKeys(cache')
Added == CacheKeys(cache') \ CacheKeys(cache)

\* C1: when a get or put makes the cache exceed MAX_CACHED_FILES entries, one
\* entry is evicted and no other, and it is one whose last access is not after
\* that of any entry that stays; and once put 1..N, get 2..N, put N+1 have run,
\* that last put has evicted dataset 1 alone and the cache holds 2..N+1.
C1_EvictsLeastRecentlyAccessed ==
    /\ [][ /\ Cardinality(Removed) <= 1
           /\ (Len(cache) = MAX_CACHED_FILES /\ Added # {}) => Removed # {}
           /\ Removed # {} => Added # {}
           /\ \A k \in Removed : \A i \in 1..Len(cache') :
                  CacheGet(cache, k).lastAccessMs <= cache'[i].lastAccessMs ]_vars
    /\ [](scen = ScriptDone =>
            /\ CacheKeys(cache) = 2..(MAX_CACHED_FILES + 1)
            /\ ret # NoRet =>
                  /\ ret.op = "put" /\ ret.fileId = MAX_CACHED_FILES + 1
                  /\ ret.evicted = {1})

\* the put of dataset N+1 that ends the scenario has returned, the clock
\* having advanced on the way
C1_Witness ==
    /\ scen = ScriptDone
    /\ ret # NoRet /\ ret.evicted = {1}
    /\ now > 0

\* C2: whatever puts and gets have run or are suspended at an await, the
\* cache holds at most MAX_CACHED_FILES datasets.
C2_CacheWithinCapacity == Len(cache) <= MAX_CACHED_FILES

\* a call has just evicted an entry from a full cache while another call is
\* suspended at an await
C2_Witness ==
    /\ Len(cache) = MAX_CACHED_FILES
    /\ ret # NoRet /\ ret.evicted # {}
    /\ ops # EmptyBag

\* C3: every dataset version in the cache is fully present in the durable
\* store (stated for the fileIds no put is rewriting at the moment).
C3_CacheInDurableStore ==
    \A i \in 1..Len(cache) :
        (\A o \in SavesInFlight : o.fileId # cache[i].key) =>
            /\ disk[cache[i].key].meta = Some(JsonStringify(cache[i].meta))
            /\ disk[cache[i].key].messages = Some(JsonStringify(cache[i].messages))

\* C4: a step that evicts leaves the durable store as it is; a get that
\* misses the cache for a fileId put before (no put of that fileId running
\* beside it) succeeds, returns the meta and messages last put, and leaves the
\* fileId in the cache, evicting at most one other entry.
C4_EvictedDatasetIsReadBack ==
    /\ [][Removed # {} => disk' = disk]_vars
    /\ []((/\ ret.op = "get" /\ ~ ret.hit /\ ~ ret.overlap
           /\ IsSome(lastPut[ret.fileId]))
          => /\ ret.status = "ok"
             /\ ret.meta = Some(Get(lastPut[ret.fileId]).meta)
             /\ ret.messages = Some(Get(lastPut[ret.fileId]).messages)
             /\ ret.fileId \in CacheKeys(cache)
             /\ Cardinality(ret.evicted) <= 1
             /\ ret.fileId \notin ret.evicted)

\* a get has read an evicted dataset back and evicted another entry for it
C4_Witness ==
    /\ ret.op = "get" /\ ~ ret.hit /\ ~ ret.overlap
    /\ IsSome(lastPut[ret.fileId])
    /\ ret.status = "ok"
    /\ ret.evicted # {}

\* the query the search route is asked with in C5
RouteParams ==
    WithPage([q |-> <<>>, exclude |-> Null, matchMode |-> Null, sender |-> Null,
              fromMs |-> Null, toMs |-> Null], 0, 50)

\* browser stores with and without a dataset
SampleStores ==
    { [f \in BrowserIds |-> Null],
      saveParsedFileBrowser([f \in BrowserIds |-> Null], 1, NameA, FirstUpload(1).messages, 0) }

\* C5: a get of a fileId that is neither cached nor stored fails, the search
\* route answers it with 404 and no total, the failed get changes neither the
\* cache nor the durable store; the browser store's get fails likewise.
C5_UnknownFileIdIsNotFound ==
    /\ []((/\ ret.op = "get"
           /\ disk[ret.fileId] = [meta |-> Null, messages |-> Null]
           /\ ret.fileId \notin CacheKeys(cache))
          => /\ ret.status = "error"
             /\ searchRouteGET(ret, RouteParams).status = 404
             /\ "total" \notin DOMAIN searchRouteGET(ret, RouteParams))
    /\ [][(ret' # NoRet /\ ret'.op = "get" /\ ret'.status = "error")
              => cache' = cache /\ disk' = disk]_vars
    /\ [](\A store \in SampleStores : \A f \in 0..(MaxBrowserFiles + 1) :
              f \notin StoredIds(store) => loadParsedFileBrowser(store, f).status = "error")

\* a get of an unknown fileId has failed while the cache holds datasets
C5_Witness ==
    /\ ret.op = "get" /\ ret.status = "error"
    /\ disk[ret.fileId] = [meta |-> Null, messages |-> Null]
    /\ Len(cache) > 0

-----------------------------------------------------------------------------
(* Properties of the server-side record store under failing I/O *)

\* a step in which a put or a get fails
Fails == ret' # NoRet /\ ret'.status = "error"

\* C24: when a write of a put or a read of a get fails, the failure is the
\* outcome of that put or get, the operation is over (nothing of it stays in
\* flight to try again), and the step changes neither the cache (no entry
\* inserted, none evicted) nor the durable store.
C24_FailurePropagates ==
    [][Fails =>
          /\ cache' = cache
          /\ disk' = disk
          /\ \E o \in InFlight :
                /\ o.fileId = ret'.fileId
                /\ o.kind = (IF ret'.op = "put" THEN "save" ELSE "load")
                /\ ops' = ops (-) SetToBag({o})]_vars

\* the put that was to replace a cached dataset has failed after its
\* meta.json was written
C24_Witness ==
    /\ ret.op = "put" /\ ret.status = "error"
    /\ ret.fileId \in CacheKeys(cache)
    /\ disk[ret.fileId].meta # Some(JsonStringify(CacheGet(cache, ret.fileId).meta))

\* C25: once a get that missed the cache and a put of the same fileId have
\* both completed (nothing is in flight), the cache entry of that fileId, if
\* there is one, has the meta and the messages the durable store has: the get
\* has not put the copy it read over the entry of the put.
C25_CacheFollowsStoreAfterOverlap ==
    ops = EmptyBag =>
        \A f \in CacheKeys(cache) :
            /\ IsSome(disk[f].meta) /\ IsSome(disk[f].messages)
            /\ CacheGet(cache, f).meta = JsonParse(Get(disk[f].meta))
            /\ CacheGet(cache, f).messages = JsonParse(Get(disk[f].messages))

\* C26: a get never returns a meta and a message list that come from two
\* different puts: what it returns is the name and the messages of one upload
\* of the fileId, and meta.messageCount is the length of the message list.
C26_GetReturnsOnePut ==
    (ret.op = "get" /\ ret.status = "ok") =>
        /\ Get(ret.meta).messageCount = Len(Get(ret.messages))
        /\ \E u \in {FirstUpload(ret.fileId), SecondUpload(ret.fileId)} :
              /\ Get(ret.meta).originalName = u.originalName
              /\ Get(ret.messages) = u.messages

-----------------------------------------------------------------------------
(* Properties of the server-side record store: the entry of the call *)

\* C29: when loadParsedFile(f) or saveParsedFile(f) returns, f is in the cache:
\* the eviction that follows the call's cache.set removes another entry, also
\* when entries have the same lastAccessMs.
C29_OwnEntrySurvivesEviction ==
    (ret.op \in {"get", "put"} /\ ret.status = "ok") =>
        /\ \E i \in 1..Len(cache) : cache[i].key = ret.fileId
        /\ ret.fileId \notin ret.evicted

\* a call has returned after evicting an entry while every entry, the evicted
\* one included, had the lastAccessMs of the call's own entry
C29_Witness ==
    /\ ret.op \in {"get", "put"} /\ ret.status = "ok"
    /\ ret.evicted # {}
    /\ now = 0
    /\ Len(cache) = MAX_CACHED_FILES
    /\ \A i \in 1..Len(cache) : cache[i].lastAccessMs = now

-----------------------------------------------------------------------------
(* Properties of the browser upload *)

\* the stored datasets whose name is the given one once trimmed and lowercased
NameMatches(store, name) ==
    { g \in StoredIds(store) : NameKey(Get(store[g]).meta.originalName) = NameKey(name) }

\* C6: a file saved by an upload with "replace if name matches" enabled, while
\* a stored dataset has its name (trimmed, lowercased), takes the fileId of
\* such a dataset: the store does not grow and that dataset is replaced; any
\* other file gets a fileId no dataset has; all other datasets stay as they are.
C6_ReplaceOnNameReusesFileId ==
    [][(upl.pc = "loop" /\ upl' # upl /\ upl'.pc = "loop") =>
          LET file == Head(upl.queue)
          IN  IF upl.replaceOnName /\ NameMatches(idb, file.name) # {}
              THEN /\ StoredIds(idb') = StoredIds(idb)
                   /\ \E g \in NameMatches(idb, file.name) :
                         /\ Get(idb'[g]).meta.originalName = file.name
                         /\ Get(idb'[g]).messages = file.messages
                         /\ \A h \in BrowserIds \ {g} : idb'[h] = idb[h]
              ELSE \E g \in BrowserIds \ StoredIds(idb) :
                         /\ StoredIds(idb') = StoredIds(idb) \cup {g}
                         /\ Get(idb'[g]).messages = file.messages
                         /\ \A h \in BrowserIds \ {g} : idb'[h] = idb[h] ]_vars

-----------------------------------------------------------------------------
(* Properties of the browser upload: names under "replace if name matches" *)

\* C28: when every upload is made with "replace if name matches" enabled, on a
\* store that had no two datasets of the same trimmed, lowercased originalName,
\* no two stored datasets have the same trimmed, lowercased originalName.
C28_NamesStayDistinct ==
    \A f, g \in StoredIds(idb) :
        f # g => toLowerCase(trim(Get(idb[f]).meta.originalName))
                    # toLowerCase(trim(Get(idb[g]).meta.originalName))

-----------------------------------------------------------------------------
(* Properties of the browser application: the active dataset *)

\* C30: the active fileId, meta and messages are those of one stored dataset,
\* and once no loadActiveFile call is in flight the active dataset is the one
\* of the last call, in whatever order the reads of overlapping calls complete.
C30_ActiveFollowsLastRequest ==
    /\ active.status = "ok" =>
          /\ Get(active.meta).fileId = active.fileId
          /\ IsSome(idb[active.fileId])
          /\ Get(idb[active.fileId]).meta = Get(active.meta)
          /\ Get(idb[active.fileId]).messages = Get(active.messages)
    /\ (loading = <<>> /\ requested # <<>>) =>
          /\ active.status = "ok"
          /\ active.fileId = requested[1]

-----------------------------------------------------------------------------
(* Properties of the metadata aggregator and the query engine *)

\* the timestamps of the messages of the list that have one
ListTimestamps ==
    { Get(list[i].timestampMs) : i \in { j \in 1..Len(list) : IsSome(list[j].timestampMs) } }

\* C7: the meta computed for a list has messageCount equal to the number of
\* messages; senders holds exactly the distinct senders, each once, in
\* ascending string order; minTimestampMs and maxTimestampMs are the least and
\* the greatest timestampMs present, and are null exactly when there is none.
C7_MetaMatchesMessages ==
    out.op = "meta" =>
        /\ out.meta.messageCount = Len(list)
        /\ Range(out.meta.senders) = { list[i].sender : i \in 1..Len(list) }
        /\ Cardinality(Range(out.meta.senders)) = Len(out.meta.senders)
        /\ \A i \in 1..(Len(out.meta.senders) - 1) :
              StrLess(out.meta.senders[i], out.meta.senders[i + 1])
        /\ (out.meta.minTimestampMs = Null) <=> (ListTimestamps = {})
        /\ (out.meta.maxTimestampMs = Null) <=> (ListTimestamps = {})
        /\ ListTimestamps # {} =>
              /\ Get(out.meta.minTimestampMs) \in ListTimestamps
              /\ Get(out.meta.maxTimestampMs) \in ListTimestamps
              /\ \A t \in ListTimestamps :
                    Get(out.meta.minTimestampMs) <= t /\ t <= Get(out.meta.maxTimestampMs)

\* the meta of three messages, two of one sender, one without a timestamp
C7_Witness ==
    /\ out.op = "meta"
    /\ Len(list) = 3
    /\ Len(out.meta.senders) = 2
    /\ \E i \in 1..Len(list) : list[i].timestampMs = Null
    /\ IsSome(out.meta.minTimestampMs)
    /\ out.meta.minTimestampMs # out.meta.maxTimestampMs

\* a message satisfies every predicate the query sets
Satisfies(m, qry) ==
    /\ IsSome(qry.sender) => m.sender = Get(qry.sender)
    /\ IsSome(qry.exclude) =>
          \A i \in 1..Len(parseTerms(Get(qry.exclude))) :
              ~ includes(m.textNorm, parseTerms(Get(qry.exclude))[i])
    /\ IsSome(qry.fromMs) =>
          IsSome(m.timestampMs) /\ Get(m.timestampMs) >= Get(qry.fromMs)
    /\ IsSome(qry.toMs) =>
          IsSome(m.timestampMs) /\ Get(m.timestampMs) <= Get(qry.toMs)
    /\ matchesQuery(m.textNorm, qry.q, MatchModeOf(qry))

Searched == out.op \in {"search", "page"}

\* C8: every hit of a search is a message of the list that satisfies the
\* sender, exclude, time-range and text predicates of the query all at once.
C8_HitsSatisfyEveryPredicate ==
    Searched =>
        \A i \in 1..Len(out.results) :
            /\ out.results[i].id \in 1..Len(list)
            /\ out.results[i].text = list[out.results[i].id].text
            /\ Satisfies(list[out.results[i].id], query)

\* a search with every predicate set has hits and has left messages out
C8_Witness ==
    /\ Searched
    /\ IsSome(query.sender) /\ IsSome(query.exclude)
    /\ IsSome(query.fromMs) /\ IsSome(query.toMs)
    /\ query.matchMode = Some(ModeWord) /\ query.q # <<>>
    /\ Len(out.results) > 0
    /\ out.total < Len(list)

\* C9: the pages of limit k taken from offset 0 on, up to the page that
\* reaches total, put one after the other are the sorted match list: the same
\* hits in the same order, each once, total of them.
C9_PagesRebuildMatchList ==
    (out.op = "page" /\ out.offset + out.limit >= out.total) =>
        /\ Len(out.pages) = out.total
        /\ Len(Filtered(list, query)) = out.total
        /\ \A i \in 1..Len(out.pages) : out.pages[i].id = Filtered(list, query)[i].id
        /\ Cardinality({ out.pages[i].id : i \in 1..Len(out.pages) }) = out.total

\* three matches read in pages of two: a full page, then a page of one
C9_Witness ==
    /\ out.op = "page"
    /\ out.limit = 2 /\ out.offset = 2 /\ out.total = 3
    /\ Len(out.pages) = 3

\* C10: total is the number of messages of the list that satisfy every
\* predicate, whatever offset and limit; results are the hits at the 0-based
\* positions offset .. offset+limit-1 of the sorted match list, as many of
\* them as exist.
C10_TotalAndWindow ==
    Searched =>
        LET sorted == Filtered(list, query)
            rest == IF out.total > out.offset THEN out.total - out.offset ELSE 0
            n == IF rest < out.limit THEN rest ELSE out.limit
        IN  /\ out.total = Cardinality({ i \in 1..Len(list) : Satisfies(list[i], query) })
            /\ Len(out.results) = n
            /\ \A i \in 1..n : out.results[i].id = sorted[out.offset + i].id

\* a page cut short by the end of the match list
C10_Witness ==
    /\ out.op = "search"
    /\ out.offset = 1 /\ out.limit = 2 /\ out.total = 2
    /\ Len(out.results) = 1

\* C11: the hits of a search come newest first for every timestamp value,
\* zero and negative ones included; a hit without a timestampMs comes after
\* every hit that has one; hits with equal timestamps, or both without one,
\* keep their extraction order (ids are given in extraction order).
C11_NewestFirstUnknownLast ==
    Searched =>
        \A i \in 1..Len(out.results) : \A j \in (i + 1)..Len(out.results) :
            LET a == out.results[i]
                b == out.results[j]
            IN  /\ (IsSome(a.timestampMs) /\ IsSome(b.timestampMs)) =>
                      Get(a.timestampMs) >= Get(b.timestampMs)
                /\ ~ IsSome(a.timestampMs) => ~ IsSome(b.timestampMs)
                /\ a.timestampMs = b.timestampMs => a.id < b.id

\* the state shows every match: the last page of a paging, or a direct call
\* from offset 0 with a limit that reaches total
ShowsAll ==
    \/ out.op = "page" /\ out.offset + out.limit >= out.total
    \/ out.op = "search" /\ out.offset = 0 /\ out.limit >= out.total

\* the ids of the matches (ids are the places in the list)
HitIds ==
    IF out.op = "page" THEN { out.pages[i].id : i \in 1..Len(out.pages) }
    ELSE { out.results[i].id : i \in 1..Len(out.results) }

SenderOk(m) == IsSome(query.sender) => m.sender = Get(query.sender)

TimeOk(m) ==
    /\ IsSome(query.fromMs) =>
          IsSome(m.timestampMs) /\ Get(query.fromMs) <= Get(m.timestampMs)
    /\ IsSome(query.toMs) =>
          IsSome(m.timestampMs) /\ Get(m.timestampMs) <= Get(query.toMs)

\* the terms of a string: its maximal runs of non-whitespace, lowercased
Terms(str) ==
    { toLowerCase(SubSeq(str, ab[1], ab[2])) :
        ab \in { cd \in (1..Len(str)) \X (1..Len(str)) :
                   /\ cd[1] <= cd[2]
                   /\ \A k \in cd[1]..cd[2] : ~ IsSpace(str[k])
                   /\ cd[1] = 1 \/ IsSpace(str[cd[1] - 1])
                   /\ cd[2] = Len(str) \/ IsSpace(str[cd[2] + 1]) } }

\* needle occurs in hay
Contains(hay, needle) ==
    \E a \in 1..(Len(hay) + 1) : \E b \in (a - 1)..Len(hay) : SubSeq(hay, a, b) = needle

NotExcluded(m) ==
    ~ (IsSome(query.exclude) /\ \E t \in Terms(Get(query.exclude)) : Contains(m.textNorm, t))

\* the place between hay[k] and hay[k+1] has a word character on one side only
\* (there is none beyond the ends of hay)
AtWordEdge(hay, k) ==
    (k >= 1 /\ IsWordChar(hay[k])) # (k < Len(hay) /\ IsWordChar(hay[k + 1]))

\* term occurs in hay between two word edges
WholeWordIn(hay, term) ==
    \E a \in 1..Len(hay) : \E b \in a..Len(hay) :
        /\ SubSeq(hay, a, b) = term
        /\ AtWordEdge(hay, a - 1)
        /\ AtWordEdge(hay, b)

TextOk(m) ==
    IF Terms(query.q) = {} THEN TRUE
    ELSE IF MatchModeOf(query) = ModeWord
         THEN \A t \in Terms(query.q) : WholeWordIn(m.textNorm, t)
         ELSE Contains(m.textNorm, toLowerCase(trim(query.q)))

\* C14: among the messages the other predicates keep, the matches are those
\* the time predicate keeps: with fromMs or toMs set, a message without a
\* timestampMs is out and one with a timestampMs is in exactly when
\* fromMs <= timestampMs and timestampMs <= toMs for the bounds set; with no
\* bound set none is out.
C14_TimeRangeInclusive ==
    ShowsAll =>
        \A i \in 1..Len(list) :
            (SenderOk(list[i]) /\ NotExcluded(list[i]) /\ TextOk(list[i])) =>
                (i \in HitIds <=> TimeOk(list[i]))

\* both bounds set to the timestamp of a match, a message without a
\* timestamp and a later one left out
C14_Witness ==
    /\ ShowsAll
    /\ query.fromMs = Some(1) /\ query.toMs = Some(1)
    /\ query.sender = Null /\ query.exclude = Null /\ query.q = <<>>
    /\ \E i \in 1..Len(list) : list[i].timestampMs = Null /\ i \notin HitIds
    /\ \E i \in 1..Len(list) : list[i].timestampMs = Some(2) /\ i \notin HitIds
    /\ \E i \in 1..Len(list) : list[i].timestampMs = Some(1) /\ i \in HitIds

\* C15: among the messages the other predicates keep, a message is dropped
\* exactly when exclude has a term and textNorm contains one of its
\* whitespace-separated lowercased terms; a missing, empty or blank exclude
\* drops none.
C15_ExcludeAnyTerm ==
    ShowsAll =>
        \A i \in 1..Len(list) :
            (SenderOk(list[i]) /\ TimeOk(list[i]) /\ TextOk(list[i])) =>
                (i \notin HitIds <=> ~ NotExcluded(list[i]))

\* an exclusion of two terms has dropped a message holding only the second
\* term and kept another message
C15_Witness ==
    /\ ShowsAll
    /\ query.exclude = Some(<<97, 98, 32, 45>>)
    /\ query.sender = Null /\ query.fromMs = Null /\ query.toMs = Null /\ query.q = <<>>
    /\ \E i \in 1..Len(list) : list[i].textNorm = <<97, 45, 98>> /\ i \notin HitIds
    /\ \E i \in 1..Len(list) : i \in HitIds

\* C16: among the messages the other predicates keep, the matches are, in
\* whole-word mode, those in whose textNorm every term of q occurs between
\* word boundaries, and in substring mode those whose textNorm contains the
\* trimmed lowercased q; a q without a term matches every message.
C16_TextPredicate ==
    ShowsAll =>
        \A i \in 1..Len(list) :
            (SenderOk(list[i]) /\ TimeOk(list[i]) /\ NotExcluded(list[i])) =>
                (i \in HitIds <=> TextOk(list[i]))

\* a whole-word search of two terms has dropped the message holding one of
\* them inside a longer word only and kept one holding both as words
C16_Witness ==
    /\ ShowsAll
    /\ query.matchMode = Some(ModeWord) /\ query.q = <<97, 32, 98>>
    /\ query.sender = Null /\ query.exclude = Null
    /\ query.fromMs = Null /\ query.toMs = Null
    /\ \E i \in 1..Len(list) : list[i].textNorm = <<97, 98>> /\ i \notin HitIds
    /\ \E i \in 1..Len(list) : list[i].textNorm = <<98>> /\ i \notin HitIds
    /\ \E i \in 1..Len(list) : list[i].textNorm = <<97, 45, 98>> /\ i \in HitIds

-----------------------------------------------------------------------------
(* Properties of the search across all stored datasets *)

Merge == out.op = "merge" /\ out.status = "ok"

RECURSIVE SumOfTotals(_)
\* the totals of the single-dataset searches of the datasets F, added up
SumOfTotals(F) ==
    IF F = {} THEN 0
    ELSE LET f == CHOOSE g \in F : TRUE
         IN  searchMessages(Get(idb[f]).messages, WithPage(query, 0, 1)).total
             + SumOfTotals(F \ {f})

\* C12: the total of a merge search is the sum of the totals the
\* single-dataset search returns for the stored datasets, empty ones included.
C12_MergeTotalIsSum ==
    Merge => out.total = SumOfTotals(StoredIds(idb))

\* two datasets, one of them without messages, the other with two matches
C12_Witness ==
    /\ Merge
    /\ Cardinality(StoredIds(idb)) = 2
    /\ \E f \in StoredIds(idb) : Get(idb[f]).messages = <<>>
    /\ out.total = 2

\* the matches of dataset f: dataset, id, timestamp
MatchesOf(f) ==
    { [fileId |-> f, id |-> i, timestampMs |-> Get(idb[f]).messages[i].timestampMs] :
        i \in { j \in 1..Len(Get(idb[f]).messages) :
                  Satisfies(Get(idb[f]).messages[j], query) } }

UnionOfMatches == UNION { MatchesOf(f) : f \in StoredIds(idb) }

\* u comes before e when sorted by timestamp descending, unknown timestamps last
Newer(u, e) ==
    /\ IsSome(u.timestampMs)
    /\ ~ IsSome(e.timestampMs) \/ Get(u.timestampMs) > Get(e.timestampMs)

\* C13: the page of a merge search is the window [offset, offset+limit) of
\* the matches of all datasets sorted together newest first: it has the
\* window's length, each hit is a match of the dataset whose fileId and
\* fileName it carries, no hit comes twice, and the hit at place p of the
\* sorted union has fewer than p matches before it and at least p matches
\* that are not after it.
C13_MergePageIsGlobalWindow ==
    Merge =>
        LET size == Cardinality(UnionOfMatches)
            rest == IF size > out.offset THEN size - out.offset ELSE 0
            n == IF rest < out.limit THEN rest ELSE out.limit
        IN  /\ Len(out.results) = n
            /\ \A i \in 1..Len(out.results) : \A j \in 1..Len(out.results) :
                  i # j => out.results[i].key # out.results[j].key
            /\ \A i \in 1..Len(out.results) :
                  LET h == out.results[i]
                      e == [fileId |-> h.fileId, id |-> h.id, timestampMs |-> h.timestampMs]
                  IN  /\ e \in UnionOfMatches
                      /\ h.fileName = Get(idb[h.fileId]).meta.originalName
                      /\ Cardinality({ u \in UnionOfMatches : Newer(u, e) }) <= out.offset + i - 1
                      /\ Cardinality({ u \in UnionOfMatches : ~ Newer(e, u) }) >= out.offset + i


-----------------------------------------------------------------------------
(* Properties of the query engine: its input *)

-----------------------------------------------------------------------------
(* Properties of the extraction *)

Extracted == out.op = "extract"

Blank(str) == \A i \in 1..Len(str) : IsSpace(str[i])

\* the words of a string: its maximal runs of characters other than whitespace
Words(str) == SelectSeq(SplitWhitespace(str, <<>>), LAMBDA w : w # <<>>)

\* no whitespace at either end, and no whitespace other than single spaces
Normalized(str) ==
    /\ str # <<>> => ~IsSpace(str[1]) /\ ~IsSpace(str[Len(str)])
    /\ \A i \in 1..Len(str) : IsSpace(str[i]) => str[i] = 32 /\ ~IsSpace(str[i + 1])

RECURSIVE Lowered(_, _)
\* the lowercase of the characters of str from position i on
Lowered(str, i) ==
    IF i > Len(str) THEN <<>>
    ELSE (IF str[i] \in 65..90 THEN <<str[i] + 32>>
          ELSE IF str[i] = 304 THEN <<105, 775>>
          ELSE <<str[i]>>) \o Lowered(str, i + 1)

\* the blocks that have a content element with a body that is not blank
Emits(block) == IsSome(block.content) /\ ~Blank(TextWithoutLists(Get(block.content)))
Emitting == SelectSeq(pickMessageBlocks(doc), Emits)

\* C17: every message the extraction emits has a text that is not empty and
\* is normalized, and a textNorm that is the text with its capital letters
\* made small; a block with no content element or with a blank body emits no
\* message, every other block emits one.  (The extraction is one recursion on
\* the list of blocks, so it ends for every document.)
C17_MessagesHaveText ==
    Extracted =>
        /\ Len(out.messages) = Len(Emitting)
        /\ \A k \in 1..Len(out.messages) :
              LET m == out.messages[k]
              IN  /\ m.text # <<>>
                  /\ Normalized(m.text)
                  /\ m.textNorm = Lowered(m.text, 1)

\* a document with a block without content element, a block with a blank
\* body and a block whose message has capital letters
C17_Witness ==
    /\ Extracted
    /\ Len(out.messages) = 1
    /\ out.messages[1].text # out.messages[1].textNorm
    /\ \E i, j \in 1..Len(pickMessageBlocks(doc)) :
          /\ ~IsSome(pickMessageBlocks(doc)[i].content)
          /\ IsSome(pickMessageBlocks(doc)[j].content)
          /\ ~Emits(pickMessageBlocks(doc)[j])

\* neither Date.parse nor the structured format gives a time for the string
Unparseable(str) ==
    /\ ~IsSome(DateParse(trim(str)))
    /\ \/ ~IsSome(StructuredMatch(trim(str)))
       \/ ~IsSome(MonthIndex(Get(StructuredMatch(trim(str))).monthName))

TextOf(opt) == IF IsSome(opt) THEN Get(opt) ELSE <<>>

\* C18: the messages are those of the blocks that emit one, in the order of
\* the blocks; the message of a block without heading, or with a blank one,
\* has sender "Unknown", and the message of a block whose timestamp text no
\* parser reads has no timestampMs and keeps the timestamp text as
\* timestampRaw.
C18_DefectsStayLocal ==
    Extracted =>
        /\ Len(out.messages) = Len(Emitting)
        /\ \A k \in 1..Len(Emitting) :
              LET m == out.messages[k]
                  b == Emitting[k]
              IN  /\ Words(m.text) = Words(TextWithoutLists(Get(b.content)))
                  /\ Words(m.timestampRaw) = Words(TextOf(b.stamp))
                  /\ Blank(TextOf(b.heading)) => m.sender = SenderUnknown
                  /\ ~Blank(TextOf(b.heading)) => Words(m.sender) = Words(Get(b.heading))
                  /\ Unparseable(TextOf(b.stamp)) => m.timestampMs = Null
                  /\ ~Unparseable(TextOf(b.stamp)) => IsSome(m.timestampMs)

\* a message with sender "Unknown" and no time, its timestamp text kept,
\* followed by a message with sender and time
C18_Witness ==
    /\ Extracted
    /\ \E i, j \in 1..Len(out.messages) :
          /\ i < j
          /\ out.messages[i].sender = SenderUnknown
          /\ out.messages[i].timestampMs = Null
          /\ out.messages[i].timestampRaw # <<>>
          /\ out.messages[j].sender # SenderUnknown
          /\ IsSome(out.messages[j].timestampMs)

\* the hour of the 24-hour clock, as the table of the 12-hour clock has it
Clock24(hour, ampm) ==
    IF toLowerCase(ampm) = Am
    THEN (IF hour = 12 THEN 0 ELSE hour)
    ELSE (IF hour = 12 THEN 12 ELSE hour + 12)

\* the one block of the document has the timestamp made of the fields f
StampIs(f) ==
    /\ Len(pickMessageBlocks(doc)) = 1
    /\ pickMessageBlocks(doc)[1].stamp = Some(MakeStamp(f))

\* C19: a timestamp "<Month> <Day>, <Year> <Hour>:<Minute> <am|pm>" with Hour
\* in 1..12 is read as the local time with the hour 0 for 12 am, Hour for
\* 1..11 am, 12 for 12 pm and Hour + 12 for 1..11 pm, an hour in 0..23, and
\* with a month index in 0..11; "Mar 16, 2023 11:23 pm" is 2023-03-16 23:23.
C19_TwelveHourClock ==
    Extracted =>
        /\ \A f \in StampFields :
              StampIs(f) =>
                  /\ Clock24(f.hour, f.ampm) \in 0..23
                  /\ f.month - 1 \in 0..11
                  /\ out.messages[1].timestampMs =
                        Some(DateLocal(f.year, f.month - 1, f.day, Clock24(f.hour, f.ampm), f.minute))
        /\ \A k \in 1..Len(out.messages) :
              out.messages[k].timestampRaw = StampMarch =>
                  out.messages[k].timestampMs = Some(27983483)

\* 12:05 am of a day of December has been read
C19_Witness ==
    /\ Extracted
    /\ StampIs([month |-> 12, day |-> 16, year |-> 2023, hour |-> 12, minute |-> 5, ampm |-> Am])
    /\ out.messages[1].timestampMs = Some(DateLocal(2023, 11, 16, 0, 5))


-----------------------------------------------------------------------------
(* Properties of the browser upload: a file without messages *)

\* the loop of the upload is at a file whose extraction gives no message
AtEmptyFile == upl.pc = "loop" /\ upl.queue # <<>> /\ Head(upl.queue).messages = <<>>

\* C23: an upload whose extraction yields zero messages creates no dataset:
\* the step that handles the file leaves the store as it was, with the
\* datasets it listed before and nothing written for a new fileId.
C23_EmptyUploadCreatesNothing ==
    [][(AtEmptyFile /\ upl' # upl) => idb' = idb]_vars

-----------------------------------------------------------------------------
(* Properties of the snippet *)

\* the term the snippet is built around: the trimmed lowercased q, in
\* whole-word mode its first term
SnippetTerm ==
    IF query.matchMode = Some(ModeWord)
    THEN (IF Words(Lowered(query.q, 1)) = <<>> THEN <<>> ELSE Words(Lowered(query.q, 1))[1])
    ELSE Lowered(trim(query.q), 1)

\* the 0-based positions at which needle occurs in hay
Occurrences(hay, needle) ==
    { p \in 0..(Len(hay) - Len(needle)) :
        \A i \in 1..Len(needle) : hay[p + i] = needle[i] }

\* the window of the claim around position p: 48 characters to either side of
\* the term, cut at the ends of the text
WindowStart(p) == IF p > 48 THEN p - 48 ELSE 0
WindowEnd(p, text) ==
    IF p + Len(SnippetTerm) + 48 < Len(text) THEN p + Len(SnippetTerm) + 48 ELSE Len(text)

\* C20: the snippet of a hit of a search with a non-empty term is the text
\* from 48 characters before the first occurrence of the term in textNorm to
\* 48 characters after its end, cut at the ends of the text, with an ellipsis
\* in front if and only if text is left out in front and an ellipsis behind
\* if and only if text is left out behind; and it contains the term, in the
\* letter case the text has it.
C20_SnippetShowsTerm ==
    (Searched /\ SnippetTerm # <<>>) =>
        \A k \in 1..Len(out.results) :
            LET h == out.results[k]
                occ == Occurrences(Lowered(h.text, 1), SnippetTerm)
                p == CHOOSE a \in occ : \A b \in occ : a <= b
            IN  /\ occ # {}
                /\ h.snippet =
                      (IF WindowStart(p) > 0 THEN <<8230>> ELSE <<>>)
                        \o SubSeq(h.text, WindowStart(p) + 1, WindowEnd(p, h.text))
                        \o (IF WindowEnd(p, h.text) < Len(h.text) THEN <<8230>> ELSE <<>>)
                /\ Occurrences(Lowered(h.snippet, 1), SnippetTerm) # {}


\* the first n characters of a text, the whole text if it has no more
FirstChars(text, n) == SubSeq(text, 1, IF Len(text) < n THEN Len(text) ELSE n)

\* C21: when q is empty or only whitespace, the snippet of every hit is the
\* first 2 x 48 = 96 characters of its text, followed by an ellipsis if and
\* only if the text has more than 96 characters.
C21_SnippetWithoutTerm ==
    (Searched /\ Blank(query.q)) =>
        \A k \in 1..Len(out.results) :
            out.results[k].snippet =
                FirstChars(out.results[k].text, 96)
                  \o (IF Len(out.results[k].text) > 96 THEN <<8230>> ELSE <<>>)


-----------------------------------------------------------------------------
(* Properties of the search route *)

Routed == out.op = "route"

\* the offset and the limit the claim gives for a URL value: an integer is
\* clamped, anything that is not a number falls back
ClampedOffset(v) ==
    IF v \in UrlNoNumbers THEN {0}
    ELSE { IF k < 0 THEN 0 ELSE k : k \in { j \in UrlNumbers : v = Some(NumberText(j)) } }
ClampedLimit(v) ==
    IF v \in UrlNoNumbers THEN {50}
    ELSE { IF k < 1 THEN 1 ELSE IF k > 200 THEN 200 ELSE k :
             k \in { j \in UrlNumbers : v = Some(NumberText(j)) } }

====
